---------------------------- MODULE Spec2Model ----------------------------
(***************************************************************************)
(* A model of the prompt import worker (src/worker): the import            *)
(* orchestrator process_tweet_for_import with the extractor, the reply     *)
(* recovery, the classifier and the prompts table it drives, and the pure  *)
(* category mapping map_category.                                          *)
(*                                                                         *)
(* Python strings are TLA+ strings; the operators below compute on them    *)
(* the way the Python built-ins the code uses do (lower, strip, in,        *)
(* slicing, re.search with the patterns of the source).  External services *)
(* (the database server, the tweet mirrors, the LLM chain, the reply       *)
(* subprocess) are nondeterministic: each call draws one of the results    *)
(* the service can give.                                                   *)
(***************************************************************************)
EXTENDS Integers, Sequences, FiniteSets, TLC

VARIABLES
    prompts,    \* the prompts table: the source_link of its rows, in insertion order
    last,       \* the process_tweet_for_import call a driver holds the outcome of:
                \* arguments, completion, the mirrors it saw (net), and the author
                \* replies the tweet has (replies), fetched or not, and what
                \* extract_prompt made of the main post (post) of the text and
                \* images it was given (given)
    calls,      \* number of orchestrator calls made so far
    imported,   \* history: URLs for which some call has returned method "imported"
    mcArg,      \* map_category: the classification dict of the latest call
    mcResult,   \* map_category: the value it returned
    ft,         \* fetch_tweet: the latest call, the mirrors it met and what it did
    aic,        \* call_ai: the latest call, the providers it met and what it did
    drv,        \* a driver run: the loop it is in, its position and its counts
    far,        \* fetch_author_replies: the latest call, what it met and what it did
    cp,         \* classify_prompt: the latest call, what call_ai gave it and what it did
    ep,         \* extract_prompt: the latest call, the answer of the LLM and the result
    st,         \* the monitor state dict: its processed_tweets list, and the state file
    rl,         \* the call of XMonitor.get_user_tweets
    race,       \* two processes in process_tweet_for_import for one tweet_url
    gm          \* the Gmail pipeline: its runs, the inbox, email_records

vars == <<prompts, last, calls, imported, mcArg, mcResult, ft,
         aic, drv, far, cp, ep, st, rl, race, gm>>

-----------------------------------------------------------------------------
(* Bounds of the model.                                                    *)

\* orchestrator calls in one behaviour
MaxCalls == 3
\* the longest image list a caller or a mirror supplies
MaxImages == 6
\* the longest sub_categories list the classifier LLM answers with
MaxSubCats == 6
\* the longest arbitrary raw category string tried on map_category
MaxRawLen == 2
\* the longest of the short data files of import_aiart_x_urls.run_import
MaxItems == 3
\* the items of its long data file
LongItems == 12
\* the runs of run_import in one behaviour
MaxRuns == 2
\* the runs of main.run_full_pipeline in one behaviour
MaxPipelineRuns == 2
\* the emails of the inbox
MaxEmails == 2
\* the accounts one run of fetch_x_accounts.monitor_accounts checks
MaxAccounts == 2
\* the most tweets one account gives
MaxTweets == 2
\* mark_tweet_processed calls in one behaviour
MaxMarks == 4

-----------------------------------------------------------------------------
(* Python string built-ins.                                                *)

\* Python None, where the code passes or returns it in place of a string
None == "<None>"

UpperLetters == "ABCDEFGHIJKLMNOPQRSTUVWXYZ"
LowerLetters == "abcdefghijklmnopqrstuvwxyz"

Min(S) == CHOOSE x \in S : \A y \in S : x <= y

CharAt(s, i) == SubSeq(s, i, i)

\* s[i-1:j] of Python for 1-based i: a slice is cut to the string's end
Slice(s, i, j) ==
    IF i > Len(s) \/ j < i THEN "" ELSE SubSeq(s, i, IF j > Len(s) THEN Len(s) ELSE j)

LowerChar(c) ==
    LET at == {i \in 1..Len(UpperLetters) : CharAt(UpperLetters, i) = c}
    IN  IF at = {} THEN c ELSE CharAt(LowerLetters, Min(at))

\* str.lower()
RECURSIVE Lower(_)
Lower(s) == IF s = "" THEN "" ELSE LowerChar(Head(s)) \o Lower(Tail(s))

\* needle in hay  (the empty string is in every string)
Contains(hay, needle) ==
    \E i \in 1..(Len(hay) - Len(needle) + 1) :
        SubSeq(hay, i, i + Len(needle) - 1) = needle

IsSpace(c) == c \in {" ", "\t", "\n", "\r"}

RECURSIVE LStrip(_)
LStrip(s) == IF s # "" /\ IsSpace(Head(s)) THEN LStrip(Tail(s)) ELSE s

RECURSIVE RStrip(_)
RStrip(s) ==
    IF s # "" /\ IsSpace(CharAt(s, Len(s))) THEN RStrip(SubSeq(s, 1, Len(s) - 1)) ELSE s

\* str.strip()
Strip(s) == RStrip(LStrip(s))

-----------------------------------------------------------------------------
(* Category mapping: prompt_utils.VALID_CATEGORIES, CATEGORY_MAP,          *)
(* map_category.                                                           *)

VALID_CATEGORIES ==
    { "Portrait", "Landscape", "Nature", "Architecture", "Abstract",
      "Sci-Fi", "Fantasy", "Anime", "Photography", "Illustration",
      "Fashion", "Food", "Product", "Cinematic", "Horror", "Cute",
      "Retro", "Minimalist", "Surreal", "3D Render", "Cyberpunk",
      "Pixel Art", "Other" }

\* the dict in insertion order, which is the order map_category iterates it in
CATEGORY_MAP ==
    <<
       <<"Portrait", "Portrait">>, <<"Landscape", "Landscape">>, <<"Nature", "Nature">>,
       <<"Architecture", "Architecture">>, <<"Abstract", "Abstract">>, <<"Sci-Fi", "Sci-Fi">>,
       <<"Fantasy", "Fantasy">>, <<"Anime", "Anime">>, <<"Photography", "Photography">>,
       <<"Illustration", "Illustration">>, <<"Fashion", "Fashion">>, <<"Food", "Food">>,
       <<"Product", "Product">>, <<"Cinematic", "Cinematic">>, <<"Horror", "Horror">>,
       <<"Cute", "Cute">>, <<"Retro", "Retro">>, <<"Minimalist", "Minimalist">>,
       <<"Surreal", "Surreal">>, <<"3D Render", "3D Render">>, <<"Cyberpunk", "Cyberpunk">>,
       <<"Pixel Art", "Pixel Art">>, <<"Other", "Other">>, <<"Landscape/Nature", "Landscape">>,
       <<"Animals", "Nature">>, <<"Architecture/Urban", "Architecture">>, <<"Urban", "Architecture">>,
       <<"Abstract Art", "Abstract">>, <<"Sci-Fi/Futuristic", "Sci-Fi">>, <<"Futuristic", "Sci-Fi">>,
       <<"Fantasy/Magic", "Fantasy">>, <<"Magic", "Fantasy">>, <<"Anime/Cartoon", "Anime">>,
       <<"Cartoon", "Anime">>, <<"Realistic Photography", "Photography">>, <<"Illustration/Painting", "Illustration">>,
       <<"Painting", "Illustration">>, <<"Fashion/Clothing", "Fashion">>, <<"Clothing", "Fashion">>,
       <<"Product/Commercial", "Product">>, <<"Commercial", "Product">>, <<"Horror/Dark", "Horror">>,
       <<"Dark", "Horror">>, <<"Cute/Kawaii", "Cute">>, <<"Kawaii", "Cute">>,
       <<"Vintage/Retro", "Retro">>, <<"Vintage", "Retro">>, <<"Clay / Felt", "Cute">>,
       <<"Retro / Vintage", "Retro">>, <<"3D", "3D Render">>
    >>

CategoryKeys == {CATEGORY_MAP[i][1] : i \in 1..Len(CATEGORY_MAP)}

\* key.lower() of every entry, in dict order
LowerKeys == [i \in 1..Len(CATEGORY_MAP) |-> Lower(CATEGORY_MAP[i][1])]

\* the empty dict {}
EmptyDict == [k \in {} |-> ""]

\* dict.get(key, default)
DictGet(d, key, default) == IF key \in DOMAIN d THEN d[key] ELSE default

map_category(classification) ==
    LET raw_category == DictGet(classification, "category", "Other")
        exact == {i \in 1..Len(CATEGORY_MAP) : CATEGORY_MAP[i][1] = raw_category}
        raw_lower == Lower(raw_category)
        fuzzy == {i \in 1..Len(CATEGORY_MAP) :
                     \/ LowerKeys[i] = raw_lower
                     \/ Contains(raw_lower, LowerKeys[i])
                     \/ Contains(LowerKeys[i], raw_lower)}
    IN  IF exact # {} THEN CATEGORY_MAP[Min(exact)][2]
        ELSE IF fuzzy # {} THEN CATEGORY_MAP[Min(fuzzy)][2]
        ELSE IF raw_category \in VALID_CATEGORIES THEN raw_category
        ELSE "Illustration"

-----------------------------------------------------------------------------
(* Python values: truthiness, None, exceptions.                            *)

\* bool(s) of an optional string: None and "" are falsy
Truthy(s) == s # None /\ s # ""

\* the outcome of a call that raised instead of returning a value
Raise(msg) == [raised |-> TRUE, msg |-> msg]
Return(v) == [raised |-> FALSE, value |-> v]

Digits == {"0", "1", "2", "3", "4", "5", "6", "7", "8", "9"}

\* s[i:]  for a 1-based i
From(s, i) == Slice(s, i, Len(s))

\* the longest prefix of s whose characters all satisfy the class
RECURSIVE DigitRun(_)
DigitRun(s) ==
    IF s # "" /\ Head(s) \in Digits THEN Head(s) \o DigitRun(Tail(s)) ELSE ""

RECURSIVE NonSlashRun(_)
NonSlashRun(s) ==
    IF s # "" /\ Head(s) # "/" THEN Head(s) \o NonSlashRun(Tail(s)) ELSE ""

StartsWith(s, prefix) == Slice(s, 1, Len(prefix)) = prefix

\* re.search(r'/status/(\d+)', url): the digits after the first "/status/"
\* that digits follow
extract_tweet_id(url) ==
    LET at == {i \in 1..Len(url) :
                  /\ StartsWith(From(url, i), "/status/")
                  /\ DigitRun(From(url, i + 8)) # ""}
    IN  IF at = {} THEN "" ELSE DigitRun(From(url, Min(at) + 8))

\* the text after a host name at position i, or None when no host name is there
AfterHost(url, i) ==
    IF StartsWith(From(url, i), "twitter.com/") THEN From(url, i + 12)
    ELSE IF StartsWith(From(url, i), "x.com/") THEN From(url, i + 6)
    ELSE None

\* re.search(r'(?:twitter\.com|x\.com)/([^/]+)/status', url)
extract_username(url) ==
    LET at == {i \in 1..Len(url) :
                  LET rest == AfterHost(url, i)
                  IN  /\ rest # None
                      /\ NonSlashRun(rest) # ""
                      /\ StartsWith(From(rest, Len(NonSlashRun(rest)) + 1), "/status")}
    IN  IF at = {} THEN "" ELSE NonSlashRun(AfterHost(url, Min(at)))

\* s[-n:]
LastChars(s, n) == IF Len(s) <= n THEN s ELSE From(s, Len(s) - n + 1)

-----------------------------------------------------------------------------
(* Prompt extraction: prompt_utils.extract_prompt_regex, extract_prompt.   *)

\* the shortest regex capture extract_prompt_regex accepts is longer than this
MinRegexPromptLen == 50

QuoteChars == {"\"", "'", "[", "("}

\* re.sub(r'^[\"\'\[\(]+', '', s)
RECURSIVE StripLeadingQuotes(_)
StripLeadingQuotes(s) ==
    IF s # "" /\ Head(s) \in QuoteChars THEN StripLeadingQuotes(Tail(s)) ELSE s

\* whether [Pp]rompt\s*:\s*(.+) matches at position i (re.DOTALL: the group
\* takes the rest of the text and needs one character at least)
PromptRegexMatchesAt(text, i) ==
    /\ Slice(text, i, i + 5) \in {"Prompt", "prompt"}
    /\ LET rest == LStrip(From(text, i + 6))
       IN  StartsWith(rest, ":") /\ Len(rest) >= 2

extract_prompt_regex(text) ==
    IF ~Truthy(text) THEN None
    ELSE LET at == {i \in 1..Len(text) : PromptRegexMatchesAt(text, i)}
         IN  IF at = {} THEN None
             ELSE LET group == Tail(LStrip(From(text, Min(at) + 6)))
                      prompt == StripLeadingQuotes(Strip(group))
                  IN  IF Len(prompt) > MinRegexPromptLen THEN prompt ELSE None

Sentinels == {"No prompt found", "Prompt in reply", "Prompt in ALT", "Advertisement"}

AdPhrases ==
    { "promotional content", "advertisement", "does not contain", "no actual prompt",
      "not an actual prompt", "is not a prompt", "doesn't contain", "self-promotion",
      "engagement bait" }

NoPromptPhrases == {"no prompt", "not found"}

AltPhrases == {"prompt in alt"}

ReplyPhrases == {"prompt in reply", "in the reply", "in the comment"}

ContainsAny(s, phrases) == \E p \in phrases : Contains(s, p)

\* no extract_prompt call yet
NoExtractCall == [called |-> FALSE]

\* the tests made in another order: the reply test before the ALT test
extract_prompt_reply_first(text, ai) ==
    LET result == [prompt |-> None, location |-> None, method |-> None]
    IN  IF ~Truthy(text) THEN result
        ELSE IF ai.raised THEN result
        ELSE IF ~Truthy(ai.value) THEN result
        ELSE LET ai_result == ai.value
                 ai_lower == Lower(ai_result)
                 is_ad == ai_result = "Advertisement" \/ ContainsAny(ai_lower, AdPhrases)
                 is_no_prompt ==
                     ai_result = "No prompt found" \/ ContainsAny(ai_lower, NoPromptPhrases)
                 is_in_alt == ai_result = "Prompt in ALT" \/ ContainsAny(ai_lower, AltPhrases)
                 is_in_reply ==
                     ai_result = "Prompt in reply" \/ ContainsAny(ai_lower, ReplyPhrases)
             IN  IF is_ad
                     THEN [prompt |-> "Advertisement", location |-> None, method |-> "ai"]
                 ELSE IF is_in_reply
                     THEN [prompt |-> "Prompt in reply", location |-> "reply", method |-> "ai"]
                 ELSE IF is_in_alt
                     THEN [prompt |-> "Prompt in ALT", location |-> "alt", method |-> "ai"]
                 ELSE IF is_no_prompt
                     THEN [result EXCEPT !.method = "ai"]
                 ELSE IF ai_result \notin Sentinels
                     THEN [prompt |-> ai_result, location |-> "post", method |-> "ai"]
                 ELSE result

\* extract_prompt(text, use_ai=True); ai is what _extract_prompt_with_ai
\* (one call of call_ai) gives for the text: an answer or an exception
extract_prompt(text, ai) ==
    LET result == [prompt |-> None, location |-> None, method |-> None]
    IN  IF ~Truthy(text) THEN result
        ELSE IF ai.raised THEN result
        ELSE IF ~Truthy(ai.value) THEN result
        ELSE LET ai_result == ai.value
                 ai_lower == Lower(ai_result)
                 is_ad == ai_result = "Advertisement" \/ ContainsAny(ai_lower, AdPhrases)
                 is_no_prompt ==
                     ai_result = "No prompt found" \/ ContainsAny(ai_lower, NoPromptPhrases)
                 is_in_alt == ai_result = "Prompt in ALT" \/ ContainsAny(ai_lower, AltPhrases)
                 is_in_reply ==
                     ai_result = "Prompt in reply" \/ ContainsAny(ai_lower, ReplyPhrases)
             IN  IF is_ad
                     THEN [prompt |-> "Advertisement", location |-> None, method |-> "ai"]
                 ELSE IF is_in_alt
                     THEN [prompt |-> "Prompt in ALT", location |-> "alt", method |-> "ai"]
                 ELSE IF is_in_reply
                     THEN [prompt |-> "Prompt in reply", location |-> "reply", method |-> "ai"]
                 ELSE IF is_no_prompt
                     THEN [result EXCEPT !.method = "ai"]
                 ELSE IF ai_result \notin Sentinels
                     THEN [prompt |-> ai_result, location |-> "post", method |-> "ai"]
                 ELSE result

-----------------------------------------------------------------------------
(* The LLM provider chain: prompt_utils.call_ai.  env is what one call     *)
(* meets: the API keys of the process and what each provider would answer. *)

\* the providers in the order of the code
Providers == <<"Pollinations", "Gitee", "NVIDIA">>

\* Pollinations needs no key; the other two are tried only with their key set
HasKey(env, provider) == provider = "Pollinations" \/ Truthy(env.keys[provider])

\* ', '.join(errors)
RECURSIVE Join(_)
Join(errors) ==
    IF errors = << >> THEN ""
    ELSE IF Len(errors) = 1 THEN errors[1]
    ELSE errors[1] \o ", " \o Join(Tail(errors))

\* the locals of call_ai before the first provider
StartOfChain == [returned |-> FALSE, result |-> None, errors |-> << >>, invoked |-> << >>]

\* one provider of the chain that is invoked even after an earlier one answered
TryProviderAlways(a, provider, env) ==
    LET answer == env.answers[provider]
        a1 == [a EXCEPT !.invoked = Append(a.invoked, provider)]
    IN  IF ~HasKey(env, provider) THEN a
        ELSE IF answer.raised
            THEN [a1 EXCEPT !.errors =
                     Append(a.errors, provider \o " (" \o answer.msg \o ")")]
        ELSE [a1 EXCEPT !.returned = TRUE, !.result = answer.value]

\* one provider of the chain: not reached after a return, skipped without its
\* key; its exception is added to errors
TryProvider(a, provider, env) ==
    LET answer == env.answers[provider]
        a1 == [a EXCEPT !.invoked = Append(a.invoked, provider)]
    IN  IF a.returned THEN a
        ELSE IF ~HasKey(env, provider) THEN a
        ELSE IF answer.raised
            THEN [a1 EXCEPT !.errors =
                     Append(a.errors, provider \o " (" \o answer.msg \o ")")]
        ELSE [a1 EXCEPT !.returned = TRUE, !.result = answer.value]

\* the three providers in turn
Chain(env) ==
    TryProvider(TryProvider(TryProvider(StartOfChain,
        "Pollinations", env), "Gitee", env), "NVIDIA", env)

\* no call_ai call yet
NoAiCall == [called |-> FALSE, n |-> 0, ret |-> Return(None)]

\* a chain that ends without an exception when nothing answered
call_ai_quiet(env) ==
    IF Chain(env).returned THEN Return(Chain(env).result) ELSE Return(None)

\* call_ai: the first answer, or one exception naming every failure
call_ai(env) ==
    IF Chain(env).returned THEN Return(Chain(env).result)
    ELSE Raise("all AI services failed: " \o Join(Chain(env).errors))

-----------------------------------------------------------------------------
(* What the external services answer.                                      *)

\* the answers the LLM chain gives to an extraction request
LongPrompt == "a cyberpunk city at dusk, neon lights, cinematic"
ShortPrompt == "a tiny robot"
PaddedShortPrompt == "a tiny robot        "

AiAnswers ==
    { "Advertisement", "Prompt in reply", "Prompt in ALT", "No prompt found", "",
      "This post does not contain an image prompt", "The prompt is in the comments",
      ShortPrompt, PaddedShortPrompt, LongPrompt }

\* call_ai: the text of the first provider that answers, or the exception it
\* raises when every provider failed
CallAiResults == {Raise("all AI services failed")} \cup {Return(a) : a \in AiAnswers}

\* the same for the request extract_prompt_from_replies sends
ReplyAiResults ==
    {Raise("all AI services failed")}
        \cup {Return(a) : a \in {"No prompt found", "", ShortPrompt, LongPrompt}}

\* the replies fetch_author_replies returns; it returns [] for every failure
RegexReply == "Prompt: a cyberpunk city at dusk, neon lights, cinematic, --ar 16:9 --v 6"
QuotedRegexReply ==
    "Full prompt : \"an oil painting of a lighthouse in a storm, dramatic clouds, 8k"
PlainReply == "Here is what I typed to get this picture, enjoy"

ReplyFetchResults ==
    { << >>,
      << [text |-> RegexReply] >>,
      << [text |-> PlainReply], [text |-> QuotedRegexReply], [text |-> RegexReply] >>,
      << [text |-> PlainReply] >> }

-----------------------------------------------------------------------------
(* Reply fetch: prompt_utils.fetch_author_replies.  It reads the cookies   *)
(* from the X_COOKIE variable or, when that is unset, from x_cookies.json, *)
(* and runs fetch_replies.py in a subprocess.                              *)

\* what a cookie source holds: nothing (the variable unset, no file), text
\* that is no JSON, a JSON object with or without the two tokens, a JSON array
\* with elements, or a JSON value Python takes as false (null, [], {}, 0, "")
Cookie(kind, auth_token, ct0) == [kind |-> kind, auth_token |-> auth_token, ct0 |-> ct0]

CookieSources ==
    {Cookie(k, None, None) : k \in {"unset", "invalid", "array", "false"}}
        \cup {Cookie("object", a, c) : a \in {None, "", "tok"}, c \in {None, "", "tok"}}

\* cookies = {}
EmptyCookies == Cookie("false", None, None)

ReplyConfigs == [env : CookieSources, file : CookieSources]

\* how the subprocess ends: it cannot be started, it passes the timeout, or
\* it exits; fetch_replies.py prints a JSON list on stdout, or dies before
Exit(returncode, stdout, stderr) ==
    [kind |-> "exit", returncode |-> returncode, stdout |-> stdout, stderr |-> stderr]

Blank == [kind |-> "blank"]
NotJson == [kind |-> "text"]
JsonOut(replies) == [kind |-> "json", value |-> replies]

SubprocessRuns ==
    { [kind |-> "oserror"], [kind |-> "timeout"],
      Exit(1, Blank, "Traceback"), Exit(1, JsonOut(<< [text |-> RegexReply] >>), ""),
      Exit(0, Blank, ""), Exit(0, NotJson, "DEBUG: x") }
        \cup {Exit(0, JsonOut(r), "") : r \in ReplyFetchResults}

\* no call yet
NoReplyFetch == [called |-> FALSE]

\* what the call returns or lets through, and whether the subprocess started
fetch_author_replies(cfg, run) ==
    LET source == IF cfg.env.kind # "unset" THEN cfg.env ELSE cfg.file
        cookies == IF source.kind \in {"unset", "invalid"} THEN EmptyCookies ELSE source
    IN  IF cookies.kind = "false" THEN [ret |-> Return(<< >>), started |-> FALSE]
        ELSE IF cookies.kind # "object"
            THEN [ret |-> Raise("'list' object has no attribute 'get'"),
                  started |-> FALSE]
        ELSE IF ~Truthy(cookies.auth_token) \/ ~Truthy(cookies.ct0)
            THEN [ret |-> Return(<< >>), started |-> FALSE]
        ELSE IF run.kind = "oserror"
            THEN [ret |-> Return(<< >>), started |-> FALSE]
        ELSE IF run.kind = "timeout"
            THEN [ret |-> Return(<< >>), started |-> TRUE]
        ELSE IF run.returncode = 0 /\ run.stdout.kind # "blank"
            THEN [ret |-> IF run.stdout.kind = "json" THEN Return(run.stdout.value)
                          ELSE Return(<< >>),
                  started |-> TRUE]
        ELSE [ret |-> Return(<< >>), started |-> TRUE]

\* every outcome of a call
ReplyFetchOutcomes ==
    {fetch_author_replies(cfg, run).ret : cfg \in ReplyConfigs, run \in SubprocessRuns}

-----------------------------------------------------------------------------
(* Reply recovery: prompt_utils.extract_prompt_from_replies,               *)
(* extract_prompt_with_replies.  An operator that calls a service returns  *)
(* the set of its possible results, each with the calls it made.           *)

\* the regex results of the replies, in order, None where it does not match
RegexOfReplies(replies) == [i \in 1..Len(replies) |-> extract_prompt_regex(replies[i].text)]

extract_prompt_from_replies(replies) ==
    LET found == {i \in 1..Len(replies) : Truthy(RegexOfReplies(replies)[i])}
    IN  IF replies = << >> THEN {[value |-> None, stages |-> {}]}
        ELSE IF found # {}
            THEN {[value |-> RegexOfReplies(replies)[Min(found)], stages |-> {}]}
        ELSE {[value |-> IF ~ai.raised /\ Truthy(ai.value) /\ ai.value # "No prompt found"
                            THEN ai.value ELSE None,
               stages |-> {"call_ai"}] : ai \in ReplyAiResults}

\* the dict extract_prompt_with_replies returns; raised is set where the call
\* let an exception through instead, with its message in error
ExtractResult(success, prompt, location, method, from_reply, error) ==
    [success |-> success, prompt |-> prompt, location |-> location,
     method |-> method, from_reply |-> from_reply, error |-> error,
     raised |-> FALSE]

ExtractRaised(msg) ==
    [ExtractResult(FALSE, None, None, None, FALSE, msg) EXCEPT !.raised = TRUE]

\* the part of extract_prompt_with_replies that chases the replies
ChaseReplies(tweet_id, author_username) ==
    UNION {
        LET replies == IF fetched.raised THEN << >> ELSE fetched.value
        IN
        IF fetched.raised
            THEN {[result |-> ExtractRaised(fetched.msg),
                   stages |-> {"fetch_author_replies"}, replies |-> << >>]}
        ELSE IF replies # << >>
            THEN {[result |-> IF Truthy(r.value)
                                  THEN ExtractResult(TRUE, r.value, "reply", "ai", TRUE, None)
                                  ELSE ExtractResult(FALSE, None, None, None, FALSE,
                                                     "Failed to extract prompt from replies"),
                   stages |-> {"fetch_author_replies", "extract_prompt_from_replies"}
                                  \cup r.stages,
                   replies |-> <<replies>>]
                  : r \in extract_prompt_from_replies(replies)}
            ELSE {[result |-> ExtractResult(FALSE, None, None, None, FALSE,
                                            "No author replies found"),
                   stages |-> {"fetch_author_replies"}, replies |-> <<replies>>]}
        : fetched \in ReplyFetchOutcomes }

\* extract_prompt has not run, or had no text
NoPost == [prompt |-> None, location |-> None, method |-> None]

extract_prompt_with_replies(text, tweet_id, author_username) ==
    IF ~Truthy(text)
        THEN {[result |-> ExtractResult(FALSE, None, None, None, FALSE, "Empty text"),
               stages |-> {}, replies |-> << >>, post |-> NoPost]}
    ELSE UNION {
        LET extract_result == extract_prompt(text, ai)
            prompt == extract_result.prompt
            location == extract_result.location
            method == extract_result.method
            called == {"extract_prompt", "call_ai"}
        IN  IF prompt = "Advertisement"
                THEN {[result |-> ExtractResult(FALSE, None, None, method, FALSE,
                                                "Advertisement"),
                       stages |-> called, replies |-> << >>,
                       post |-> extract_result]}
            ELSE IF prompt = "Prompt in reply" \/ location = "reply"
                THEN {[result |-> r.result, stages |-> called \cup r.stages,
                       replies |-> r.replies, post |-> extract_result]
                      : r \in ChaseReplies(tweet_id, author_username)}
            ELSE IF ~Truthy(prompt) \/ prompt = "No prompt found"
                THEN {[result |-> ExtractResult(FALSE, None, None, method, FALSE,
                                                "No prompt found"),
                       stages |-> called, replies |-> << >>,
                       post |-> extract_result]}
            ELSE {[result |-> ExtractResult(TRUE, prompt,
                                            IF Truthy(location) THEN location ELSE "post",
                                            method, FALSE, None),
                   stages |-> called, replies |-> << >>,
                       post |-> extract_result]}
        : ai \in CallAiResults }

-----------------------------------------------------------------------------
(* Classifier: prompt_utils.classify_prompt.  The LLM answer is modelled   *)
(* after the JSON parse: unparseable text, a JSON value that is no object, *)
(* or a JSON object (a dict; JSON null is None).                           *)

\* a JSON array, and a JSON value that is not an array
JsonList(items) == [is_list |-> TRUE, items |-> items]
NotAList == [is_list |-> FALSE, items |-> << >>]

TagName(i) == "tag" \o ToString(i)

\* MaxSubCats distinct names
LongSubCats == [i \in 1..MaxSubCats |-> TagName(i)]

ClassifierObjects ==
    { [title |-> "Neon City At Dusk", category |-> "Cyberpunk",
       sub_categories |-> JsonList(<<"Sci-Fi/Futuristic", "  ", None, " Cinematic ">>),
       style |-> "photorealistic", confidence |-> "high", reason |-> "neon city"],
      [title |-> "Untitled", category |-> "Landscape/Nature",
       sub_categories |-> JsonList(<<"Nature", "Nature">>), style |-> "unknown"],
      [title |-> "  ", category |-> "  ",
       sub_categories |-> JsonList(LongSubCats), style |-> "anime"],
      [title |-> None, category |-> "portrait", sub_categories |-> NotAList,
       style |-> None],
      [title |-> "Robot", category |-> None],
      EmptyDict }

ClassifierResponses ==
    {[kind |-> "raise"], [kind |-> "unparseable"], [kind |-> "non_object"]}
        \cup {[kind |-> "object", obj |-> o] : o \in ClassifierObjects}

DefaultClassification ==
    [title |-> "Untitled Prompt", category |-> "Other", sub_categories |-> << >>,
     style |-> "unknown", confidence |-> "low",
     reason |-> "Failed to parse classification result"]

\* [tag.strip() for tag in tags if isinstance(tag, str) and tag.strip()]
RECURSIVE CleanTags(_)
CleanTags(tags) ==
    IF tags = << >> THEN << >>
    ELSE IF Head(tags) # None /\ Strip(Head(tags)) # ""
        THEN <<Strip(Head(tags))>> \o CleanTags(Tail(tags))
    ELSE CleanTags(Tail(tags))

InSeq(x, seq) == \E i \in 1..Len(seq) : seq[i] = x

\* classify_prompt after call_ai: the six-field dict, or the exception raised
classify_prompt(response) ==
    IF response.kind \in {"raise", "non_object"} THEN Raise("classification failed")
    ELSE IF response.kind = "unparseable" \/ response.obj = EmptyDict
        THEN Return(DefaultClassification)
    ELSE LET result == response.obj
             title0 == DictGet(result, "title", "Untitled Prompt")
             subs0 == DictGet(result, "sub_categories", JsonList(<< >>))
             style == DictGet(result, "style", "unknown")
             cleaned_tags == CleanTags(IF subs0.is_list THEN subs0.items ELSE << >>)
         IN  Return(
               [title |-> IF title0 = None \/ Strip(title0) = ""
                              THEN "Untitled Prompt" ELSE title0,
                category |-> DictGet(result, "category", "Other"),
                sub_categories |->
                    IF Truthy(style) /\ style # "unknown" /\ ~InSeq(style, cleaned_tags)
                        THEN Append(cleaned_tags, style) ELSE cleaned_tags,
                style |-> style,
                confidence |-> DictGet(result, "confidence", "medium"),
                reason |-> DictGet(result, "reason", "")])

\* The response text of the LLM, as classify_prompt takes it apart: what it
\* starts with (lead), whether it ends with a code fence (trail), and the body
\* between them:
\*   object           a JSON object
\*   array_of_object  a JSON array holding one object
\*   string           a JSON string without braces
\*   null             the JSON null
\*   prose_object     prose around one JSON object
\*   prose_objects    prose around two JSON objects
\*   prose_braces     prose with braces that hold no JSON
\*   prose            prose without braces
\* lead: nothing, the fence with the word json, the bare fence, the fence
\* with another word
ResponseLeads == {"none", "json_fence", "fence", "word_fence"}

ResponseBodies ==
    {[kind |-> k, obj |-> o] : k \in {"object", "array_of_object", "prose_object"},
                               o \in ClassifierObjects}
        \cup {[kind |-> k, obj |-> EmptyDict]
                : k \in {"string", "null", "prose_objects", "prose_braces", "prose"}}

ResponseTexts == [lead : ResponseLeads, trail : BOOLEAN, body : ResponseBodies]

\* json.loads(cleaned_text) does not raise: the fences are gone and the body
\* is JSON; of a fence with another word the word stays in front of the body
DirectlyParseable(text) ==
    /\ text.lead # "word_fence"
    /\ text.body.kind \in {"object", "array_of_object", "string", "null"}

\* the regex search finds a span from the first opening brace to the last
\* closing brace, and json.loads takes it
BraceSpanParseable(text) == text.body.kind \in {"object", "array_of_object", "prose_object"}

\* result after the two parse attempts, as classify_prompt goes on with it
ParsedResponse(text) ==
    IF DirectlyParseable(text)
        THEN IF text.body.kind = "object" THEN [kind |-> "object", obj |-> text.body.obj]
             ELSE IF text.body.kind = "null" THEN [kind |-> "unparseable"]
             ELSE [kind |-> "non_object"]
    ELSE IF BraceSpanParseable(text) THEN [kind |-> "object", obj |-> text.body.obj]
    ELSE [kind |-> "unparseable"]

\* no classify_prompt call yet
NoClassifyCall == [called |-> FALSE]

-----------------------------------------------------------------------------
(* Tweet fetch: fetch_twitter_content.fetch_tweet.                         *)

PostText == "Neon city study, prompt included"
ArrowText == "Check this out! Prompt ~"
AdText == "50% off our AI art course! Sign up now"

\* "~" stands for the down-arrow glyphs of PROMPT_IN_REPLY_PATTERNS
DownArrow == "~"

\* the last pattern of PROMPT_IN_REPLY_PATTERNS: a down arrow ends the text
EndsWithDownArrow(text) ==
    Truthy(text) /\ RStrip(text) # "" /\ CharAt(RStrip(text), Len(RStrip(text))) = DownArrow

\* what one mirror gives: an exception (network error, non-200), or the parsed
\* result
MirrorResult(text, images) == Return([text |-> text, images |-> images])

NoMirror == Raise("request failed")

\* what one fetch meets: the mirrors FxTwitter, VxTwitter and Syndication,
\* whether Playwright is installed, and what the browser would give
NetWith(fx, vx, syn, has_playwright, pw) ==
    [fx |-> fx, vx |-> vx, syn |-> syn, has_playwright |-> has_playwright, pw |-> pw]

\* the same on a host without Playwright
Net(fx, vx, syn) == NetWith(fx, vx, syn, FALSE, NoMirror)

NetOutcomes ==
    { Net(NoMirror, NoMirror, NoMirror),
      Net(MirrorResult("", << >>), MirrorResult("", << >>), MirrorResult("", << >>)),
      Net(MirrorResult(PostText, <<1, 2>>), NoMirror, NoMirror),
      Net(NoMirror, MirrorResult(PostText, << >>), NoMirror),
      Net(MirrorResult("", << >>), NoMirror, MirrorResult(ArrowText, <<1>>)),
      Net(NoMirror, MirrorResult(AdText, <<1>>), MirrorResult(AdText, <<1>>)) }

\* the parameters fetch_tweet declares
FetchTweetParams == {"url", "download_images", "output_dir", "extract_prompt", "ai_model"}

\* fetch_tweet called with the keyword arguments kwargs: Python raises
\* TypeError before the body runs when a keyword is no parameter
MirrorHasText(r) == ~r.raised /\ Truthy(r.value.text)

\* the fetch methods in the order of the code
FetchMethods == <<"FxTwitter", "VxTwitter", "Syndication", "Playwright">>

\* no fetch_tweet call yet
NoFetch == [called |-> FALSE]

\* no driver run yet
NoDriver == [driver |-> "none", runs |-> 0]

\* load_state has not run
NoState ==
    [loaded |-> FALSE, has_key |-> FALSE, processed_tweets |-> << >>, disk |-> << >>,
     marks |-> 0, marked |-> 0]

\* what the method answers in net
AnswerOf(net, method) ==
    CASE method = "FxTwitter" -> net.fx
      [] method = "VxTwitter" -> net.vx
      [] method = "Syndication" -> net.syn
      [] method = "Playwright" -> net.pw

\* result = None: neither text nor images
NoResult == [text |-> None, images |-> << >>]

\* the locals of fetch_tweet before the first method
StartOfFetch ==
    [result |-> NoResult, fetch_method |-> None, fetch_errors |-> << >>, queried |-> << >>]

\* result and result.get("text")
HasText(result) == Truthy(result.text)

\* one method of the cascade that queries even after a method was accepted
TryMethodAlways(f, method, net) ==
    LET answer == AnswerOf(net, method)
        f1 == [f EXCEPT !.queried = Append(f.queried, method)]
    IN  IF method = "Playwright" /\ ~net.has_playwright THEN f
        ELSE IF answer.raised
            THEN [f1 EXCEPT !.fetch_errors = Append(f.fetch_errors, method \o ": " \o answer.msg)]
        ELSE IF Truthy(answer.value.text)
            THEN [f1 EXCEPT !.result = answer.value, !.fetch_method = method]
        ELSE [f1 EXCEPT !.result = answer.value,
                        !.fetch_errors = Append(f.fetch_errors, method \o ": empty")]

\* one method of the cascade: skipped once a result has text; an exception
\* or an empty text adds an entry to fetch_errors
TryMethod(f, method, net) ==
    LET answer == AnswerOf(net, method)
        f1 == [f EXCEPT !.queried = Append(f.queried, method)]
    IN  IF HasText(f.result) THEN f
        ELSE IF method = "Playwright" /\ ~net.has_playwright THEN f
        ELSE IF answer.raised
            THEN [f1 EXCEPT !.fetch_errors = Append(f.fetch_errors, method \o ": " \o answer.msg)]
        ELSE IF Truthy(answer.value.text)
            THEN [f1 EXCEPT !.result = answer.value, !.fetch_method = method]
        ELSE [f1 EXCEPT !.result = answer.value,
                        !.fetch_errors = Append(f.fetch_errors, method \o ": empty")]

\* the four methods in turn
FetchCascade(net) ==
    TryMethod(TryMethod(TryMethod(TryMethod(StartOfFetch,
        "FxTwitter", net), "VxTwitter", net), "Syndication", net), "Playwright", net)

\* fetch_tweet called with the keyword arguments kwargs: Python raises
\* TypeError before the body runs when a keyword is no parameter
fetch_tweet(kwargs, net) ==
    IF ~(kwargs \subseteq FetchTweetParams)
        THEN Raise("fetch_tweet() got an unexpected keyword argument")
    ELSE IF HasText(FetchCascade(net).result) THEN Return(FetchCascade(net).result)
    ELSE Raise("all fetch methods failed")

-----------------------------------------------------------------------------
(* Database: main.Database.prompt_exists, save_prompt, execute_write.      *)

\* what the server does with one statement
DbReadOutcomes == {"ok", "error"}

\* "lost": the INSERT is committed, then reading its RETURNING row fails
DbWriteOutcomes == {"ok", "error", "lost"}

\* a query that never finds the row
prompt_exists_miss(db, source_link, outcome) ==
    IF outcome = "error" THEN Raise("database error") ELSE Return(FALSE)

\* db is the source_link column of the table, the one column a statement of
\* the code reads; the other columns of a row are in the record of its insert
prompt_exists(db, source_link, outcome) ==
    IF outcome = "error" THEN Raise("database error")
    ELSE Return(\E i \in 1..Len(db) : db[i] = source_link)

\* the table after the call, and the record returned or the exception raised
save_prompt(db, row, outcome) ==
    IF outcome = "error" THEN [db |-> db, ret |-> Raise("database error")]
    ELSE IF outcome = "lost"
        THEN [db |-> Append(db, row.source_link), ret |-> Raise("connection lost")]
    ELSE [db |-> Append(db, row.source_link), ret |-> Return(row)]

-----------------------------------------------------------------------------
(* The import orchestrator: prompt_utils.process_tweet_for_import.         *)
(* A call is given the table db and its arguments args; it ends in a       *)
(* completion: what it returned (or the exception it let through), the     *)
(* table it left, and the calls it made.                                   *)

\* prompts shorter than this after trimming are rejected
MinPromptLen == 20
\* at most this many tags and images are stored
MaxStored == 5

\* a slice that lost its bound: seq[:]
TakeAll(seq, n) == seq

\* the slice taken from the wrong end: seq[n:]
TakeAfter(seq, n) == SubSeq(seq, n + 1, Len(seq))

\* seq[:n]
Take(seq, n) == IF Len(seq) <= n THEN seq ELSE SubSeq(seq, 1, n)

InitialResult ==
    [success |-> FALSE, method |-> "skipped", error |-> None,
     twitter_failed |-> FALSE, twitter_error |-> None, data |-> None]

Skipped(error) == [InitialResult EXCEPT !.error = error]

\* an error return that sets neither method nor the twitter_failed flag
TwitterFailedUnflagged(error) == [InitialResult EXCEPT !.error = error]

TwitterFailed(error) ==
    [InitialResult EXCEPT !.method = "twitter_failed", !.twitter_failed = TRUE,
                          !.twitter_error = error, !.error = error]

\* a save_failed return that leaves error as it was
SaveFailedSilently(error) == [InitialResult EXCEPT !.method = "save_failed"]

SaveFailed(error) == [InitialResult EXCEPT !.method = "save_failed", !.error = error]

Succeeded(method) == [InitialResult EXCEPT !.success = TRUE, !.method = method]

NoExtract == ExtractResult(FALSE, None, None, None, FALSE, None)

\* the text and images handed to the extraction step: none yet
NoGiven == [text |-> None, images |-> << >>]

\* step 6 not reached: raised tells that classify_prompt raised, title is the
\* trimmed title of the classification, record the title, category and tags
\* prepared for the row
NoClassified ==
    [ran |-> FALSE, raised |-> FALSE, title |-> "",
     record |-> [title |-> "", category |-> "", tags |-> << >>]]

\* the locals of a call in progress
StartOfCall(db, args) ==
    [db |-> db, args |-> args, stages |-> {}, net |-> << >>, replies |-> << >>,
     given |-> NoGiven, post |-> NoPost, extract |-> NoExtract, saved |-> << >>,
     classified |-> NoClassified]

Ran(c, stages) == [c EXCEPT !.stages = c.stages \cup stages]

\* the call returns result
Returns(c, result) ==
    [ret |-> Return(result), db |-> c.db, stages |-> c.stages, net |-> c.net,
     replies |-> c.replies, given |-> c.given, post |-> c.post,
     extract |-> c.extract, saved |-> c.saved, classified |-> c.classified]

\* the call lets an exception through
Raises(c, msg) ==
    [ret |-> Raise(msg), db |-> c.db, stages |-> c.stages, net |-> c.net,
     replies |-> c.replies, given |-> c.given, post |-> c.post,
     extract |-> c.extract, saved |-> c.saved, classified |-> c.classified]

\* a list that knows the empty title only
InvalidTitlesBlankOnly == {""}

InvalidTitles ==
    {"Untitled Prompt", "No Prompt Provided", "Unknown Prompt", "No Title", "Untitled",
     "N/A", ""}

\* [str(t).strip() for t in tags if t]
RECURSIVE StrippedTruthy(_)
StrippedTruthy(tags) ==
    IF tags = << >> THEN << >>
    ELSE IF Truthy(Head(tags)) THEN <<Strip(Head(tags))>> \o StrippedTruthy(Tail(tags))
    ELSE StrippedTruthy(Tail(tags))

\* step 8: the insert
SaveStage(c, title, extracted_prompt, category, tags, images, username) ==
    { LET row == [title |-> title, prompt |-> extracted_prompt, category |-> category,
                  tags |-> tags, images |-> Take(images, MaxStored),
                  source_link |-> c.args.tweet_url, author |-> username,
                  import_source |-> c.args.import_source]
          done == save_prompt(c.db, row, outcome)
          c1 == [Ran(c, {"save_prompt"}) EXCEPT
                    !.db = done.db,
                    !.saved = IF Len(done.db) > Len(c.db) THEN <<row>> ELSE << >>]
      IN  IF done.ret.raised THEN Returns(c1, SaveFailed(done.ret.msg))
          ELSE Returns(c1, Succeeded("imported"))
      : outcome \in DbWriteOutcomes }

\* steps 6 and 7: classification, the record's fields, the dry run
ClassifyStage(c, extracted_prompt, images, tweet_id, username) ==
    UNION {
        LET classified == classify_prompt(response)
            classification == IF classified.raised THEN EmptyDict ELSE classified.value
            c0 == Ran(c, {"classify_prompt", "call_ai"})
            title0 == Strip(DictGet(classification, "title", ""))
            title ==
                IF title0 = "" \/ Lower(title0) \in {Lower(t) : t \in InvalidTitles}
                    THEN IF tweet_id # ""
                             THEN "@" \o username \o " #" \o LastChars(tweet_id, 6)
                             ELSE "@" \o username
                    ELSE title0
            category0 == DictGet(classification, "category", "Illustration")
            category == IF Strip(category0) = "" THEN "Illustration" ELSE Strip(category0)
            tags == Take(StrippedTruthy(DictGet(classification, "sub_categories", << >>)),
                         MaxStored)
            c1 == [c0 EXCEPT !.classified =
                      [ran |-> TRUE, raised |-> classified.raised, title |-> title0,
                       record |-> [title |-> title,
                                   category |-> IF category0 = None THEN "" ELSE category,
                                   tags |-> tags]]]
        IN  IF category0 = None
                THEN {Raises(c1, "'NoneType' object has no attribute 'strip'")}
            ELSE IF c.args.dry_run THEN {Returns(c1, Succeeded("dry_run"))}
            ELSE SaveStage(c1, title, extracted_prompt, category, tags, images, username)
        : response \in ClassifierResponses }

\* the length check without the trim
TooShortUntrimmed(extracted_prompt) == Len(extracted_prompt) < MinPromptLen

\* len(extracted_prompt.strip()) < 20
TooShort(extracted_prompt) == Len(Strip(extracted_prompt)) < MinPromptLen

\* step 5: extraction and the length check
ExtractStage(c, text, images) ==
    LET tweet_id == extract_tweet_id(c.args.tweet_url)
        username == IF Truthy(c.args.author) THEN c.args.author
                    ELSE extract_username(c.args.tweet_url)
    IN  IF ~Truthy(text) THEN {Returns(c, Skipped("No text content"))}
        ELSE UNION {
            LET extract_result == e.result
                c1 == [Ran(c, e.stages) EXCEPT !.given = [text |-> text, images |-> images],
                                               !.extract = extract_result,
                                               !.replies = e.replies,
                                               !.post = e.post]
                extracted_prompt == extract_result.prompt
            IN  IF extract_result.raised THEN {Raises(c1, extract_result.error)}
                ELSE IF ~extract_result.success
                    THEN {Returns(c1, Skipped(extract_result.error))}
                ELSE IF TooShort(extracted_prompt)
                    THEN {Returns(c1, Skipped("Prompt too short ("
                                  \o ToString(Len(extracted_prompt)) \o " chars)"))}
                ELSE ClassifyStage(c1, extracted_prompt, images, tweet_id, username)
            : e \in extract_prompt_with_replies(text, tweet_id, username) }

\* steps 3 and 4: the advertisement flag of the fetch, the images
AdAndImageStage(c, text, images, is_advertisement) ==
    IF is_advertisement THEN {Returns(c, Skipped("Advertisement content detected"))}
    ELSE IF images = << >> THEN {Returns(c, TwitterFailed("No images available"))}
    ELSE ExtractStage(c, text, images)

\* the keyword arguments the orchestrator calls fetch_tweet with
FetchKwargs == {"download_images", "extract_prompt", "ai_model", "detect_ads"}

\* a test that looks at the flag only
NeedsFetchByFlagOnly(args) == ~args.skip_twitter_fetch

\* not skip_twitter_fetch or not images
NeedsFetch(args) == ~args.skip_twitter_fetch \/ args.raw_images = << >>

\* step 2: the fetch, when the caller did not supply the images
FetchStage(c) ==
    LET text == c.args.raw_text
        images == c.args.raw_images
    IN  IF NeedsFetch(c.args)
            THEN UNION {
                LET twitter_result == fetch_tweet(FetchKwargs, net)
                    c1 == [Ran(c, {"fetch_tweet"}) EXCEPT !.net = <<net>>]
                IN  IF twitter_result.raised
                        THEN {Returns(c1, TwitterFailed(twitter_result.msg))}
                    ELSE IF twitter_result.value.images = << >>
                        THEN {Returns(c1, TwitterFailed("No images from Twitter"))}
                    ELSE AdAndImageStage(c1,
                            IF Truthy(text) THEN text ELSE twitter_result.value.text,
                            Take(twitter_result.value.images, MaxStored),
                            DictGet(twitter_result.value, "is_advertisement", FALSE))
                : net \in NetOutcomes }
        ELSE AdAndImageStage(c, text, images, FALSE)

\* the duplicate check made and its answer not used
ExistsStageUnchecked(c) ==
    UNION {
        LET exists == prompt_exists(c.db, c.args.tweet_url, outcome)
            c1 == Ran(c, {"prompt_exists"})
        IN  IF exists.raised THEN {Raises(c1, exists.msg)} ELSE FetchStage(c1)
        : outcome \in DbReadOutcomes }

\* step 1: the duplicate check
ExistsStage(c) ==
    UNION {
        LET exists == prompt_exists(c.db, c.args.tweet_url, outcome)
            c1 == Ran(c, {"prompt_exists"})
        IN  IF exists.raised THEN {Raises(c1, exists.msg)}
            ELSE IF exists.value THEN {Returns(c1, Skipped("Already exists"))}
            ELSE FetchStage(c1)
        : outcome \in DbReadOutcomes }

\* the completions of process_tweet_for_import(db, **args)
process_tweet_for_import(db, args) ==
    IF ~Truthy(args.tweet_url) THEN {Returns(StartOfCall(db, args), Skipped("No tweet URL"))}
    ELSE ExistsStage(StartOfCall(db, args))

-----------------------------------------------------------------------------
(* The raw category strings tried on map_category: every key of the map,   *)
(* every key lower-cased, strings an LLM writes that no key equals, and    *)
(* every string of at most MaxRawLen characters over RawAlphabet.          *)

RawAlphabet == {"a", "e", "z", "D", "3", " "}

RECURSIVE StringsUpTo(_)
StringsUpTo(n) ==
    IF n = 0 THEN {""}
    ELSE LET shorter == StringsUpTo(n - 1)
         IN  shorter \cup {s \o c : s \in shorter, c \in RawAlphabet}

UnrecognizedSamples ==
    { "Steampunk", "Watercolor", "Sketch", "Logo", "unknown", "N/A",
      "Dark Fantasy Portrait", "3d art", "Sci-Fi / Space", "Typography" }

RawCategories ==
    CategoryKeys \cup {LowerKeys[i] : i \in 1..Len(CATEGORY_MAP)}
        \cup UnrecognizedSamples \cup StringsUpTo(MaxRawLen)

ClassificationDicts == {EmptyDict} \cup {[category |-> raw] : raw \in RawCategories}

-----------------------------------------------------------------------------
(* State, and the calls the drivers make.                                  *)

Url1 == "https://x.com/alice/status/1111111111111111111"
Url2 == "https://twitter.com/bob/status/2222222222222345678"

TweetUrls == {"", Url1, Url2}

ImageList(n) == [i \in 1..n |-> i]

\* the argument tuples of the calls: every driver's shape is among them
CallArgs ==
    [tweet_url : TweetUrls,
     raw_text : {None, PostText, ArrowText},
     raw_images : {<< >>, ImageList(1), ImageList(MaxImages)},
     author : {None, "carol"},
     import_source : {"x-monitor"},
     dry_run : BOOLEAN,
     skip_twitter_fetch : BOOLEAN]

NoCall ==
    [called |-> FALSE, args |-> [tweet_url |-> ""], ret |-> Return(InitialResult),
     stages |-> {}, net |-> << >>, replies |-> << >>, given |-> NoGiven,
     post |-> NoPost, extract |-> NoExtract, saved |-> << >>,
     classified |-> NoClassified, rows_before |-> 0, imported_before |-> FALSE]

\* tables whose source_link values are pairwise distinct
InitialTables == {<< >>, <<Url1>>}

\* no concurrent imports yet
NoRace == [started |-> FALSE]

\* run_full_pipeline not started yet
NoPipeline == [status |-> "idle", runs |-> 0]

\* get_user_tweets not called yet
NoBackoff ==
    [status |-> "idle", retry_count |-> 0, attempts |-> 0, waits |-> << >>,
     fallbacks |-> 0, returned |-> FALSE]

Init ==
    /\ prompts \in InitialTables
    /\ last = NoCall
    /\ calls = 0
    /\ imported = {}
    /\ mcArg = EmptyDict
    /\ mcResult = None
    /\ ft = NoFetch
    /\ aic = NoAiCall
    /\ drv = NoDriver
    /\ far = NoReplyFetch
    /\ cp = NoClassifyCall
    /\ ep = NoExtractCall
    /\ st = NoState
    /\ rl = NoBackoff
    /\ race = NoRace
    /\ gm = NoPipeline

RowsWith(db, source_link) == {i \in 1..Len(db) : db[i] = source_link}

\* one call of process_tweet_for_import by a driver
ProcessTweetForImport ==
    /\ calls < MaxCalls
    /\ ~last.called
    /\ \E args \in CallArgs :
          \E done \in process_tweet_for_import(prompts, args) :
            \E replies \in IF done.replies = << >> THEN ReplyFetchResults
                                                   ELSE {done.replies[1]} :
              /\ prompts' = done.db
              /\ last' = [called |-> TRUE, args |-> args, ret |-> done.ret,
                          stages |-> done.stages, net |-> done.net,
                          replies |-> replies, given |-> done.given,
                          post |-> done.post,
                          extract |-> done.extract, saved |-> done.saved,
                          classified |-> done.classified,
                          rows_before |-> Cardinality(RowsWith(prompts, args.tweet_url)),
                          imported_before |-> args.tweet_url \in imported]
              /\ imported' =
                    IF ~done.ret.raised /\ done.ret.value.method = "imported"
                        THEN imported \cup {args.tweet_url} ELSE imported
    /\ calls' = calls + 1
    /\ UNCHANGED <<mcArg, mcResult, ft, aic, drv, far, cp, ep, st, rl, race, gm>>

\* the driver has used the outcome and goes on to its next item
NextItem ==
    /\ last.called
    /\ last' = NoCall
    /\ UNCHANGED <<prompts, calls, imported, mcArg, mcResult, ft, aic, drv, far, cp, ep, st, rl, race, gm>>

Next == ProcessTweetForImport \/ NextItem

\* the specification the claims about the orchestrator are checked under
Spec == Init /\ [][Next]_vars

-----------------------------------------------------------------------------
(* Claims about process_tweet_for_import (checked under Spec).  last is    *)
(* the call just made; a row the call inserted is last.saved[1].           *)

Returned == last.called /\ ~last.ret.raised

Inserted == last.called /\ last.saved # << >>

FetchLlmInsert ==
    {"fetch_tweet", "fetch_author_replies", "call_ai", "extract_prompt",
     "extract_prompt_from_replies", "classify_prompt", "save_prompt"}

\* what the cascade holds for the tweet: fetch_tweet called with parameters it
\* declares
CascadeOf(net) == fetch_tweet({"download_images", "extract_prompt", "ai_model"}, net)

\* C1: once a call has returned 'imported' for a tweet URL, a later call with
\* the same URL makes no fetch, no LLM call and no insert, leaves exactly one
\* row with that source_link, and what it returns is success=false,
\* method='skipped', error='Already exists'.
C1_Idempotence ==
    (last.called /\ last.imported_before) =>
        /\ last.stages \cap FetchLlmInsert = {}
        /\ last.saved = << >>
        /\ Cardinality(RowsWith(prompts, last.args.tweet_url)) = 1
        /\ ~last.ret.raised =>
              /\ last.ret.value.success = FALSE
              /\ last.ret.value.method = "skipped"
              /\ last.ret.value.error = "Already exists"

\* a second call for an imported URL has returned
C1_SecondCallSkipped ==
    /\ Returned
    /\ last.imported_before
    /\ last.ret.value.error = "Already exists"
    /\ calls >= 2

\* C2: from a table with pairwise distinct source_link values, after any
\* sequence of calls no two rows of the table share a source_link.
C2_SourceLinkUnique ==
    \A i, j \in 1..Len(prompts) : prompts[i] = prompts[j] => i = j

\* a call for a URL the table holds came after two inserts
C2_TwoRowsThenDuplicateCall ==
    /\ Len(prompts) >= 2
    /\ last.called
    /\ last.rows_before = 1
    /\ "prompt_exists" \in last.stages

\* C3: when extraction succeeds, from the post or from the replies, with a
\* prompt whose trimmed length is below 20, the call returns success=false,
\* method='skipped' with an error containing 'too short', and neither
\* classify_prompt nor save_prompt runs.
C3_ShortPromptRejected ==
    (last.called /\ last.extract.success /\ Len(Strip(last.extract.prompt)) < 20) =>
        /\ ~last.ret.raised
        /\ last.ret.value.success = FALSE
        /\ last.ret.value.method = "skipped"
        /\ Contains(last.ret.value.error, "too short")
        /\ last.stages \cap {"classify_prompt", "save_prompt"} = {}
        /\ last.saved = << >>

\* an extracted prompt of 20 characters, 12 of them after the trim, was rejected
C3_PaddedPromptRejected ==
    /\ Returned
    /\ last.extract.success
    /\ last.extract.prompt = PaddedShortPrompt
    /\ Contains(last.ret.value.error, "too short")

\* C4: when the call fetches and the fetched content is an advertisement (the
\* fetch, asked to detect ads, marks it), the call returns success=false,
\* method='skipped', error='Advertisement content detected', and extraction,
\* classification and insert do not run.
C4_AdDetectionPrecedence ==
    (last.called /\ "fetch_tweet" \in last.stages
       /\ ~CascadeOf(last.net[1]).raised
       /\ CascadeOf(last.net[1]).value.text = AdText
       /\ CascadeOf(last.net[1]).value.images # << >>) =>
        /\ ~last.ret.raised
        /\ last.ret.value = Skipped("Advertisement content detected")
        /\ last.stages \cap (FetchLlmInsert \ {"fetch_tweet"}) = {}

\* the text of the main post the call works on: the caller's, else the fetched
MainPostText ==
    IF Truthy(last.args.raw_text) THEN last.args.raw_text
    ELSE IF last.net # << >> /\ ~CascadeOf(last.net[1]).raised
        THEN CascadeOf(last.net[1]).value.text
    ELSE None

\* the images the call works on: the fetched when it has to fetch
MainPostImages ==
    IF ~last.args.skip_twitter_fetch \/ last.args.raw_images = << >>
        THEN IF last.net # << >> /\ ~CascadeOf(last.net[1]).raised
                 THEN CascadeOf(last.net[1]).value.images ELSE << >>
    ELSE last.args.raw_images

\* the regex-captured group of the first author reply the regex matches
FirstRegexGroup(replies) ==
    LET found == {i \in 1..Len(replies) : Truthy(RegexOfReplies(replies)[i])}
    IN  IF found = {} THEN None ELSE RegexOfReplies(replies)[Min(found)]

\* C5: for a new tweet whose main-post text ends in a down arrow, that has an
\* image, and whose author replies hold a regex-matchable 'Prompt: ...' line,
\* a call that is no dry run and meets no database failure ends in
\* success=true, method='imported', with from_reply=true, and the stored
\* prompt is the regex-captured group of the first matching reply.
C5_ReplyRecovery ==
    (Returned /\ last.args.tweet_url # "" /\ last.rows_before = 0
       /\ ~last.args.dry_run
       /\ EndsWithDownArrow(MainPostText)
       /\ MainPostImages # << >>
       /\ FirstRegexGroup(last.replies) # None
       /\ last.ret.value.method # "save_failed") =>
        /\ last.ret.value = Succeeded("imported")
        /\ last.extract.from_reply
        /\ last.saved # << >>
        /\ last.saved[1].prompt = FirstRegexGroup(last.replies)

\* C6: when the call has to fetch and every provider of the cascade fails or
\* gives empty text or no images, the call returns, without raising,
\* success=false, method='twitter_failed', twitter_failed=true with
\* twitter_error set, and extraction, classification and insert do not run.
C6_FetchFailure ==
    (last.called /\ "fetch_tweet" \in last.stages
       /\ (CascadeOf(last.net[1]).raised
             \/ CascadeOf(last.net[1]).value.images = << >>)) =>
        /\ ~last.ret.raised
        /\ last.ret.value.success = FALSE
        /\ last.ret.value.method = "twitter_failed"
        /\ last.ret.value.twitter_failed = TRUE
        /\ last.ret.value.twitter_error # None
        /\ last.stages \cap (FetchLlmInsert \ {"fetch_tweet"}) = {}
        /\ last.saved = << >>

\* a call fetched while every mirror was failing
C6_AllMirrorsDown ==
    /\ Returned
    /\ "fetch_tweet" \in last.stages
    /\ last.net[1] = Net(NoMirror, NoMirror, NoMirror)
    /\ last.ret.value.method = "twitter_failed"

\* C7: the category of every inserted row is one of the 23 canonical values,
\* whatever raw category the classifier returned.
C7_StoredCategoryCanonical ==
    Inserted => last.saved[1].category \in VALID_CATEGORIES

\* C9: every inserted row has at most 5 tags and at most 5 images, for any
\* classifier output and any number of images.
C9_ListCaps ==
    Inserted => Len(last.saved[1].tags) <= 5 /\ Len(last.saved[1].images) <= 5

\* a row was inserted from more than 5 supplied images, with 5 tags
C9_CappedRow ==
    /\ Inserted
    /\ Len(last.args.raw_images) > 5
    /\ last.args.skip_twitter_fetch
    /\ Len(last.saved[1].images) = 5
    /\ Len(last.saved[1].tags) = 5

\* C10: the tags of every inserted row hold no value twice, even when the
\* classifier's sub_categories repeat one.
C10_TagsDeduplicated ==
    Inserted =>
        \A i, j \in 1..Len(last.saved[1].tags) :
            last.saved[1].tags[i] = last.saved[1].tags[j] => i = j

\* the call got past the URL test and the duplicate check
PastDuplicateCheck == Returned /\ last.args.tweet_url # "" /\ last.rows_before = 0

\* C11: every inserted row has at least one image, and a call that has no
\* image to work on after the fetch stage returns method='twitter_failed' and
\* inserts nothing.
C11_ImagesRequired ==
    /\ Inserted => Len(last.saved[1].images) >= 1
    /\ (PastDuplicateCheck /\ MainPostImages = << >>) =>
          /\ last.ret.value.method = "twitter_failed"
          /\ last.ret.value.twitter_failed = TRUE
          /\ last.saved = << >>
          /\ "save_prompt" \notin last.stages

\* the cascade had the text of the tweet and no image for it
C11_TextWithoutImages ==
    /\ PastDuplicateCheck
    /\ "fetch_tweet" \in last.stages
    /\ ~CascadeOf(last.net[1]).raised
    /\ CascadeOf(last.net[1]).value.images = << >>
    /\ last.ret.value.method = "twitter_failed"

\* the outcome of the extractor for the main post
PostOutcome ==
    IF last.post.prompt = "Advertisement" THEN "advertisement"
    ELSE IF last.post.location = "alt" THEN "alt"
    ELSE IF last.post.prompt = "Prompt in reply" \/ last.post.location = "reply"
        THEN "reply"
    ELSE IF ~Truthy(last.post.prompt) \/ last.post.prompt = "No prompt found"
        THEN "not_found"
    ELSE "post"

\* the word an error string names the outcome by
OutcomeWord(outcome) ==
    CASE outcome = "advertisement" -> "advertisement"
      [] outcome = "alt" -> "alt"
      [] outcome = "reply" -> "repl"
      [] outcome = "not_found" -> "no prompt"

\* C15: when the extractor's outcome for the main post is advertisement,
\* alt, not_found, or reply without a recovered prompt, the call returns
\* success=false, method='skipped' with an error that names that outcome (for
\* an ad it mentions 'Advertisement'), and classification and insert do not
\* run.
C15_NonPostOutcomesStop ==
    (last.called /\ "extract_prompt" \in last.stages
       /\ (PostOutcome \in {"advertisement", "alt", "not_found"}
             \/ (PostOutcome = "reply" /\ ~last.extract.success))) =>
        /\ ~last.ret.raised
        /\ last.ret.value.success = FALSE
        /\ last.ret.value.method = "skipped"
        /\ Contains(Lower(last.ret.value.error), OutcomeWord(PostOutcome))
        /\ PostOutcome = "advertisement" => Contains(last.ret.value.error, "Advertisement")
        /\ last.stages \cap {"classify_prompt", "save_prompt"} = {}
        /\ last.saved = << >>

\* the call came to the fetch stage: a URL, no row for it, the query answered
ReachedFetchStage ==
    /\ last.called
    /\ last.args.tweet_url # ""
    /\ last.rows_before = 0
    /\ ~(last.ret.raised /\ last.stages = {"prompt_exists"})

\* the caller passed images and asked for no fetch
SuppliedAndSkipped == last.args.skip_twitter_fetch /\ last.args.raw_images # << >>

\* C16 as stated: the fetch cascade is invoked only if text or images were
\* not supplied; a call that supplies raw_text and a non-empty raw_images makes
\* no fetch and uses the supplied text and images for extraction and for the
\* stored row.
C16_NoFetchWhenSupplied ==
    last.called =>
        /\ "fetch_tweet" \in last.stages =>
              (~Truthy(last.args.raw_text) \/ last.args.raw_images = << >>)
        /\ (ReachedFetchStage /\ Truthy(last.args.raw_text)
               /\ last.args.raw_images # << >>) =>
              /\ "fetch_tweet" \notin last.stages
              /\ last.given = [text |-> last.args.raw_text, images |-> last.args.raw_images]
              /\ Inserted => last.saved[1].images = Take(last.args.raw_images, 5)

\* C16 amended: a call that comes to the fetch stage makes no fetch exactly
\* when the caller passed skip_twitter_fetch=true with a non-empty raw_images;
\* such a call with a raw_text uses the supplied text and images for
\* extraction and the supplied images for the stored row, and without a
\* raw_text it returns skipped/'No text content'; no other call fetches.
C16_NoFetchWhenSkipped ==
    last.called =>
        /\ "fetch_tweet" \in last.stages <=> (ReachedFetchStage /\ ~SuppliedAndSkipped)
        /\ (ReachedFetchStage /\ SuppliedAndSkipped) =>
              /\ Truthy(last.args.raw_text) =>
                    /\ "extract_prompt" \in last.stages
                    /\ last.given = [text |-> last.args.raw_text,
                                     images |-> last.args.raw_images]
              /\ ~Truthy(last.args.raw_text) => last.ret = Return(Skipped("No text content"))
              /\ Inserted => last.saved[1].images = Take(last.args.raw_images, 5)

\* a row was stored from supplied text and six supplied images without a fetch
C16_StoredFromSupplied ==
    /\ Inserted
    /\ SuppliedAndSkipped
    /\ last.args.raw_text = PostText
    /\ Len(last.args.raw_images) = 6
    /\ "fetch_tweet" \notin last.stages
    /\ last.saved[1].images = <<1, 2, 3, 4, 5>>

\* the call passed the duplicate check, the fetch stage, the extraction and
\* the length check
PassedLengthStage ==
    /\ last.called
    /\ last.extract.success
    /\ ~TooShort(last.extract.prompt)

\* C17: with dry_run=true save_prompt is never called and the table is
\* unchanged; an item that passes the duplicate check, fetch, extraction and
\* length stages ends with success=true, method='dry_run'; an item that fails
\* an earlier stage ends with an outcome the same call has without dry_run.
C17_DryRunWritesNothing ==
    [][(last'.called /\ last'.args.dry_run) =>
        /\ "save_prompt" \notin last'.stages
        /\ last'.saved = << >>
        /\ prompts' = prompts
        /\ PassedLengthStage' => last'.ret = Return(Succeeded("dry_run"))
        /\ ~PassedLengthStage' =>
              \E other \in process_tweet_for_import(prompts,
                                [last'.args EXCEPT !.dry_run = FALSE]) :
                  other.ret = last'.ret /\ other.stages = last'.stages]_vars

-----------------------------------------------------------------------------
(* map_category on its own.                                                *)

\* one call of map_category on any classification dict
MapCategoryCall ==
    /\ \E classification \in ClassificationDicts :
          /\ mcArg' = classification
          /\ mcResult' = map_category(classification)
    /\ UNCHANGED <<prompts, last, calls, imported, ft, aic, drv, far, cp, ep, st, rl, race, gm>>

NextMap == MapCategoryCall

\* the specification the claims about map_category are checked under
SpecMap == Init /\ [][NextMap]_vars

-----------------------------------------------------------------------------
(* Claims about map_category (checked under SpecMap).                      *)

McCalled == mcResult # None

McRaw == DictGet(mcArg, "category", "Other")

\* C8: for every key of CATEGORY_MAP map_category returns a canonical
\* category, and for every raw category string that is not a key (the empty
\* string and very short strings included) it returns "Illustration".
C8_MappingTotality ==
    McCalled =>
        /\ McRaw \in CategoryKeys => mcResult \in VALID_CATEGORIES
        /\ McRaw \notin CategoryKeys => mcResult = "Illustration"

-----------------------------------------------------------------------------
(* fetch_tweet on its own.                                                 *)

\* what one method can answer: a network error, a non-200 status, a reply
\* without text, the tweet
MirrorAnswers ==
    { NoMirror, Raise("request failed: 404"), MirrorResult("", << >>),
      MirrorResult(PostText, <<1>>) }

\* every combination of answers, without and with Playwright
FetchNets ==
    {NetWith(fx, vx, syn, FALSE, NoMirror) : fx \in MirrorAnswers, vx \in MirrorAnswers,
                                              syn \in MirrorAnswers}
        \cup {NetWith(fx, vx, syn, TRUE, pw) : fx \in MirrorAnswers, vx \in MirrorAnswers,
                                                syn \in MirrorAnswers, pw \in MirrorAnswers}

\* one call of fetch_tweet with the parameters it declares
FetchTweetCall ==
    /\ \E net \in FetchNets :
          ft' = [called |-> TRUE, net |-> net, did |-> FetchCascade(net),
                 ret |-> fetch_tweet({"download_images"}, net)]
    /\ UNCHANGED <<prompts, last, calls, imported, mcArg, mcResult, aic, drv, far, cp, ep, st, rl, race, gm>>

NextFetch == FetchTweetCall

\* the specification the claims about fetch_tweet are checked under
SpecFetch == Init /\ [][NextFetch]_vars

\* the methods the host has, in order
MethodsOf(net) ==
    IF net.has_playwright THEN FetchMethods ELSE SubSeq(FetchMethods, 1, 3)

\* the entries of fetch_errors are those of the methods queried without text
ErrorsMatch(did, net) ==
    LET failed == {i \in 1..Len(did.queried) : ~MirrorHasText(AnswerOf(net, did.queried[i]))}
    IN  /\ Len(did.fetch_errors) = Cardinality(failed)
        /\ \A i \in failed :
              StartsWith(did.fetch_errors[Cardinality({j \in failed : j <= i})],
                         did.queried[i] \o ": ")

\* C12: fetch_tweet queries FxTwitter, VxTwitter, Syndication in that order,
\* Playwright last and only if installed; it accepts the first method whose
\* text is not empty and queries no method after it; a method that raises,
\* answers non-200 or gives empty text adds one entry to the errors and the
\* cascade goes on with the next method.
C12_CascadeOrder ==
    ft.called =>
        LET q == ft.did.queried
            m == MethodsOf(ft.net)
        IN  /\ Len(q) <= Len(m)
            /\ q = SubSeq(m, 1, Len(q))
            /\ \A i \in 1..Len(q) :
                  /\ i < Len(q) => ~MirrorHasText(AnswerOf(ft.net, q[i]))
                  /\ (i = Len(q) /\ i < Len(m)) => MirrorHasText(AnswerOf(ft.net, q[i]))
            /\ Len(q) >= 1
            /\ MirrorHasText(AnswerOf(ft.net, q[Len(q)])) =>
                  /\ ft.did.fetch_method = q[Len(q)]
                  /\ ft.ret = Return(AnswerOf(ft.net, q[Len(q)]).value)
            /\ ErrorsMatch(ft.did, ft.net)

\* FxTwitter answered 404, VxTwitter gave no text, Syndication had the tweet,
\* and the browser, though installed, was not started
C12_ThirdMethodAccepted ==
    /\ ft.called
    /\ ft.net.has_playwright
    /\ ft.net.fx = Raise("request failed: 404")
    /\ ft.net.vx = MirrorResult("", << >>)
    /\ ft.did.queried = <<"FxTwitter", "VxTwitter", "Syndication">>
    /\ ft.did.fetch_method = "Syndication"
    /\ Len(ft.did.fetch_errors) = 2

-----------------------------------------------------------------------------
(* call_ai on its own.                                                     *)

\* calls of call_ai in one run
MaxAiCalls == 2

\* what a provider can answer: a timeout, a rate limit, a text
ProviderAnswers == {Raise("timeout"), Raise("HTTP 429"), Return("a red fox in snow")}

AiEnvs ==
    [keys : [{"Gitee", "NVIDIA"} -> {"", "key"}],
     answers : [{"Pollinations", "Gitee", "NVIDIA"} -> ProviderAnswers]]

\* one call of call_ai; before is what the call before it ended in
CallAi ==
    /\ aic.n < MaxAiCalls
    /\ \E env \in AiEnvs :
          aic' = [called |-> TRUE, n |-> aic.n + 1, env |-> env, did |-> Chain(env),
                 ret |-> call_ai(env), before |-> aic.ret]
    /\ UNCHANGED <<prompts, last, calls, imported, mcArg, mcResult, ft, drv, far, cp, ep, st, rl, race, gm>>

NextAi == CallAi

\* the specification the claims about call_ai are checked under
SpecAi == Init /\ [][NextAi]_vars

\* the position of a provider in the order of the code
ProviderIndex(provider) == CHOOSE i \in 1..Len(Providers) : Providers[i] = provider

\* C13: call_ai tries Pollinations, Gitee, NVIDIA in that order; it returns
\* the text of the first provider that does not raise, invokes a provider only
\* after every provider invoked before it raised, and starts at Pollinations
\* in every call, whatever the call before ended in.
C13_FallbackOrder ==
    aic.called =>
        LET inv == aic.did.invoked
        IN  /\ Len(inv) >= 1 /\ inv[1] = "Pollinations"
            /\ \A i, j \in 1..Len(inv) :
                  i < j => ProviderIndex(inv[i]) < ProviderIndex(inv[j])
            /\ \A i \in 1..Len(inv) :
                  i < Len(inv) => aic.env.answers[inv[i]].raised
            /\ \A i \in 1..Len(inv) :
                  ~aic.env.answers[inv[i]].raised =>
                      aic.ret = Return(aic.env.answers[inv[i]].value)
            /\ \A i \in 1..Len(Providers) :
                  (HasKey(aic.env, Providers[i])
                     /\ \A j \in 1..(i - 1) :
                           HasKey(aic.env, Providers[j]) =>
                               aic.env.answers[Providers[j]].raised)
                      => \E k \in 1..Len(inv) : inv[k] = Providers[i]

\* a second call, after a call that an exception ended, got its answer from
\* Gitee while NVIDIA would have answered too
C13_SecondCallFallsBack ==
    /\ aic.called
    /\ aic.n = 2
    /\ aic.before.raised
    /\ aic.did.invoked = <<"Pollinations", "Gitee">>
    /\ ~aic.env.answers["NVIDIA"].raised
    /\ ~aic.ret.raised

\* the errors of the providers in seq, in the form of the code
RECURSIVE ErrorsOf(_, _)
ErrorsOf(env, seq) ==
    IF seq = << >> THEN << >>
    ELSE <<Head(seq) \o " (" \o env.answers[Head(seq)].msg \o ")">> \o ErrorsOf(env, Tail(seq))

\* the providers that have their key, in order
RECURSIVE Keyed(_, _)
Keyed(env, seq) ==
    IF seq = << >> THEN << >>
    ELSE IF HasKey(env, Head(seq)) THEN <<Head(seq)>> \o Keyed(env, Tail(seq))
    ELSE Keyed(env, Tail(seq))

\* C14: when every provider that is tried fails, call_ai raises one error that
\* joins the underlying errors in provider order (all three when all three
\* have their key); a provider without its key is not invoked and adds no
\* error; call_ai returns a value only when a provider answered.
C14_ChainExhaustion ==
    aic.called =>
        LET keyed == Keyed(aic.env, Providers)
            allFail == \A i \in 1..Len(keyed) : aic.env.answers[keyed[i]].raised
        IN  /\ \A i \in 1..Len(aic.did.invoked) : HasKey(aic.env, aic.did.invoked[i])
            /\ Len(aic.did.errors) <= Len(aic.did.invoked)
            /\ allFail =>
                  /\ aic.ret.raised
                  /\ aic.did.invoked = keyed
                  /\ aic.ret.msg = "all AI services failed: "
                                     \o Join(ErrorsOf(aic.env, keyed))
            /\ ~aic.ret.raised =>
                  \E i \in 1..Len(aic.did.invoked) :
                      /\ ~aic.env.answers[aic.did.invoked[i]].raised
                      /\ aic.ret.value = aic.env.answers[aic.did.invoked[i]].value

\* all three providers had their key and failed
C14_AllThreeFailed ==
    /\ aic.called
    /\ aic.did.invoked = Providers
    /\ aic.ret.raised
    /\ aic.ret.msg =
          "all AI services failed: Pollinations (timeout), Gitee (HTTP 429), NVIDIA (timeout)"

-----------------------------------------------------------------------------
(* The driver loops: import_aiart_x_urls.run_import over the items of its  *)
(* data file, and fetch_x_accounts.monitor_accounts over accounts and the  *)
(* tweets of each.  A step is one iteration of a loop; i and t count the   *)
(* iterations that have ended, by their last statement or by an exception. *)
(* The runs start after the database connection is made.                   *)

\* the gallery drivers write their progress file on every item whose number
\* is a multiple of this
FlushEvery == 10

\* the data file: the x_url of its items that have one; the slug of an item
\* is its position.  Short files of every shape, and one file long enough
\* for the flush every FlushEvery items
DataLists ==
    UNION {[1..n -> {Url1, Url2}] : n \in 0..MaxItems}
        \cup {[k \in 1..LongItems |-> IF k % 2 = 1 THEN Url1 ELSE Url2]}

\* the slugs of a data file: the slug of an item is its position; noslug are
\* the items that have no "slug" key.  Absent stands for the None that
\* item.get("slug") gives for them, Unnamed for the "?" that
\* item.get("slug", "?") gives
Absent == 0 - 1
Unnamed == 0
NoSlugSets(data) == IF Len(data) = 0 THEN {{}} ELSE {{}, {1}}

\* item.get("slug") and item.get("slug", "?") of the item at position k
GetSlug(k, noslug) == IF k \in noslug THEN Absent ELSE k
GetSlugOr(k, noslug) == IF k \in noslug THEN Unnamed ELSE k

\* [item for item in items if item.get("slug") not in processed_slugs]
RECURSIVE NotIn(_, _, _)
NotIn(items, noslug, processed_slugs) ==
    IF items = << >> THEN << >>
    ELSE IF GetSlug(Head(items), noslug) \in processed_slugs
        THEN NotIn(Tail(items), noslug, processed_slugs)
    ELSE <<Head(items)>> \o NotIn(Tail(items), noslug, processed_slugs)

\* import_aiart_x_urls.process_item
process_item(db, x_url, dry_run) ==
    LET args == [tweet_url |-> x_url, raw_text |-> None, raw_images |-> << >>,
                 author |-> None, import_source |-> "aiart_pics",
                 dry_run |-> dry_run, skip_twitter_fetch |-> FALSE]
    IN  IF x_url = ""
            THEN {Returns(StartOfCall(db, args),
                          [success |-> FALSE, method |-> "skipped", error |-> "No x_url",
                           twitter_failed |-> FALSE])}
        ELSE process_tweet_for_import(db, args)

\* the items of a run: the resume filter, then the limit (0: no limit)
ItemsOfRun(data, noslug, resume, processed_slugs, limit) ==
    LET items == [k \in 1..Len(data) |-> k]
        left == IF resume /\ processed_slugs # {}
                    THEN NotIn(items, noslug, processed_slugs)
                ELSE items
    IN  IF limit > 0 THEN Take(left, limit) ELSE left

\* run_import up to its loop, as the first run or after a run that has ended:
\* the progress file cleared on --reset, then loaded; before is what the
\* orchestrator was given in the run before when that was a completed
\* non-dry run
RunImportStart ==
    /\ \/ drv.driver = "none"
       \/ drv.driver = "run_import" /\ drv.status # "running"
    /\ drv.runs < MaxRuns
    /\ \E data \in IF drv.driver = "none" THEN DataLists ELSE {drv.data},
          dry_run \in BOOLEAN, resume \in BOOLEAN, reset_progress \in BOOLEAN,
          limit \in {0, 2} :
      \E noslug \in IF drv.driver = "none" THEN NoSlugSets(data) ELSE {drv.noslug} :
          LET file == IF drv.driver = "none" \/ reset_progress THEN {} ELSE drv.file
              items == ItemsOfRun(data, noslug, resume, file, limit)
          IN  drv' = [driver |-> "run_import", noslug |-> noslug,
                      status |-> IF items = << >> THEN "finished" ELSE "running",
                      runs |-> drv.runs + 1,
                      dry_run |-> dry_run, resume |-> resume,
                      reset_progress |-> reset_progress, limit |-> limit,
                      data |-> data, items |-> items, i |-> 0,
                      stats |-> [success |-> 0, skipped |-> 0, failed |-> 0,
                                 twitter_failed |-> 0],
                      failed_items |-> << >>, processed_slugs |-> file,
                      file |-> file,
                      file_at_start |-> IF drv.driver = "none" THEN {} ELSE drv.file,
                      handed |-> {},
                      before |-> IF drv.driver = "run_import" /\ drv.status = "finished"
                                      /\ ~drv.dry_run
                                     THEN drv.handed ELSE {}]
    /\ UNCHANGED <<prompts, last, calls, imported, mcArg, mcResult, ft, aic, far, cp, ep, st, rl, race, gm>>

\* the counts after one item's result
Counted(stats, result) ==
    LET s1 == IF result.twitter_failed
                  THEN [stats EXCEPT !.twitter_failed = @ + 1] ELSE stats
    IN  IF result.success THEN [s1 EXCEPT !.success = @ + 1]
        ELSE IF result.method = "skipped" THEN [s1 EXCEPT !.skipped = @ + 1]
        ELSE IF result.method = "twitter_failed" THEN s1
        ELSE [s1 EXCEPT !.failed = @ + 1]

\* the progress file after item i of total: save_progress on every
\* FlushEvery-th item and on the last
SavedProgress(file, processed_slugs, i, total) ==
    IF i % FlushEvery = 0 \/ i = total THEN processed_slugs ELSE file

\* one iteration of the loop of run_import; an exception of process_item
\* leaves the loop and the function, through the finally that closes db
RunImportItem ==
    /\ drv.driver = "run_import"
    /\ drv.status = "running"
    /\ drv.i < Len(drv.items)
    /\ LET item == drv.items[drv.i + 1]
           slug == GetSlugOr(item, drv.noslug)
       IN  \E done \in process_item(prompts, drv.data[item], drv.dry_run) :
          /\ prompts' = done.db
          /\ drv' =
                IF done.ret.raised
                    THEN [drv EXCEPT !.status = "raised", !.i = @ + 1,
                                     !.handed = @ \cup {item}]
                ELSE LET processed_slugs == IF drv.dry_run THEN drv.processed_slugs
                                            ELSE drv.processed_slugs \cup {slug}
                     IN  [drv EXCEPT
                        !.i = @ + 1,
                        !.handed = @ \cup {item},
                        !.stats = Counted(@, done.ret.value),
                        !.failed_items =
                            IF done.ret.value.twitter_failed
                                THEN Append(@, drv.i + 1) ELSE @,
                        !.processed_slugs = processed_slugs,
                        !.file = IF drv.dry_run THEN @
                                 ELSE SavedProgress(@, processed_slugs, drv.i + 1,
                                                    Len(drv.items))]
    /\ UNCHANGED <<last, calls, imported, mcArg, mcResult, ft, aic, far, cp, ep, st, rl, race, gm>>

\* Ctrl-C while the loop runs: KeyboardInterrupt leaves the loop and the
\* function through the finally that closes db; nothing catches it
RunImportInterrupt ==
    /\ drv.driver = "run_import"
    /\ drv.status = "running"
    /\ drv' = [drv EXCEPT !.status = "interrupted"]
    /\ UNCHANGED <<prompts, last, calls, imported, mcArg, mcResult, ft, aic, far, cp, ep, st, rl, race, gm>>

\* run_import after its loop: the failed items saved, the summary, db closed
RunImportEnd ==
    /\ drv.driver = "run_import"
    /\ drv.status = "running"
    /\ drv.i = Len(drv.items)
    /\ drv' = [drv EXCEPT !.status = "finished"]
    /\ UNCHANGED <<prompts, last, calls, imported, mcArg, mcResult, ft, aic, far, cp, ep, st, rl, race, gm>>

\* the tweets the account reader gives
Tweet(id, url, text, images, username) ==
    [id |-> id, url |-> url, text |-> text, images |-> images, username |-> username]

TweetPool ==
    { Tweet("1111111111111111111", Url1, PostText, ImageList(1), "alice"),
      Tweet("2222222222222345678", Url2, PostText, ImageList(MaxImages), "bob"),
      Tweet("3333333333333333333", "https://x.com/bob/status/3333333333333333333",
            PostText, << >>, "bob") }

TweetLists == UNION {[1..n -> TweetPool] : n \in 0..MaxTweets}

\* what FxTwitter has for a tweet the reader gave
FxAnswers ==
    { NoMirror, MirrorResult("", << >>),
      MirrorResult(PostText \o " (full text)", ImageList(2)) }

\* fetch_x_accounts.process_tweet: what it returned or let through, the table
\* and the processed tweets it left
process_tweet(db, tweet, processed_tweets, dry_run) ==
    IF tweet.id \in processed_tweets
        THEN {[ret |-> Return(FALSE), db |-> db, processed_tweets |-> processed_tweets]}
    ELSE IF tweet.images = << >>
        THEN {[ret |-> Return(FALSE), db |-> db,
               processed_tweets |-> processed_tweets \cup {tweet.id}]}
    ELSE UNION {
        LET longer == MirrorHasText(fx) /\ Len(fx.value.text) > Len(tweet.text)
            more == ~fx.raised /\ Len(fx.value.images) > Len(tweet.images)
            args == [tweet_url |-> tweet.url,
                     raw_text |-> IF longer THEN fx.value.text ELSE tweet.text,
                     raw_images |-> IF more THEN fx.value.images ELSE tweet.images,
                     author |-> tweet.username, import_source |-> "x-monitor",
                     dry_run |-> dry_run, skip_twitter_fetch |-> TRUE]
        IN  { IF done.ret.raised
                  THEN [ret |-> done.ret, db |-> done.db,
                        processed_tweets |-> processed_tweets]
              ELSE [ret |-> Return(done.ret.value.success), db |-> done.db,
                    processed_tweets |-> processed_tweets \cup {tweet.id}]
              : done \in process_tweet_for_import(db, args) }
        : fx \in FxAnswers }

\* monitor_accounts up to its loop
MonitorStart ==
    /\ drv.driver = "none"
    /\ \E n \in 1..MaxAccounts, dry_run \in BOOLEAN :
          drv' = [driver |-> "monitor_accounts", status |-> "running",
                  dry_run |-> dry_run, accounts |-> n, a |-> 0,
                  tweets |-> << >>, t |-> 0, caught |-> FALSE,
                  stats |-> [accounts_checked |-> 0, tweets_found |-> 0,
                             prompts_saved |-> 0, errors |-> 0],
                  processed_tweets |-> {}]
    /\ UNCHANGED <<prompts, last, calls, imported, mcArg, mcResult, ft, aic, far, cp, ep, st, rl, race, gm>>

\* the next account: the tweet loop of the one before has ended, by its last
\* tweet or in the except of the account; get_user_tweets answers or raises
MonitorNextAccount ==
    /\ drv.driver = "monitor_accounts"
    /\ drv.status = "running"
    /\ drv.t = Len(drv.tweets) \/ drv.caught
    /\ drv.a < drv.accounts
    /\ \/ \E tweets \in TweetLists :
             drv' = [drv EXCEPT !.a = @ + 1, !.tweets = tweets, !.t = 0,
                                !.caught = FALSE,
                                !.stats.accounts_checked = @ + 1,
                                !.stats.tweets_found = @ + Len(tweets)]
       \/ drv' = [drv EXCEPT !.a = @ + 1, !.tweets = << >>, !.t = 0,
                             !.caught = TRUE, !.stats.errors = @ + 1]
    /\ UNCHANGED <<prompts, last, calls, imported, mcArg, mcResult, ft, aic, far, cp, ep, st, rl, race, gm>>

\* one iteration of the tweet loop; an exception of process_tweet is caught
\* by the except of the account, which counts it
MonitorTweet ==
    /\ drv.driver = "monitor_accounts"
    /\ drv.status = "running"
    /\ ~drv.caught
    /\ drv.t < Len(drv.tweets)
    /\ \E done \in process_tweet(prompts, drv.tweets[drv.t + 1],
                                  drv.processed_tweets, drv.dry_run) :
          /\ prompts' = done.db
          /\ drv' =
                IF done.ret.raised
                    THEN [drv EXCEPT !.t = @ + 1, !.caught = TRUE,
                                     !.stats.errors = @ + 1]
                ELSE [drv EXCEPT
                        !.t = @ + 1,
                        !.processed_tweets = done.processed_tweets,
                        !.stats.prompts_saved =
                            IF done.ret.value = TRUE THEN @ + 1 ELSE @]
    /\ UNCHANGED <<last, calls, imported, mcArg, mcResult, ft, aic, far, cp, ep, st, rl, race, gm>>

\* monitor_accounts after its loop: the state saved, db closed
MonitorEnd ==
    /\ drv.driver = "monitor_accounts"
    /\ drv.status = "running"
    /\ drv.t = Len(drv.tweets) \/ drv.caught
    /\ drv.a = drv.accounts
    /\ drv' = [drv EXCEPT !.status = "finished"]
    /\ UNCHANGED <<prompts, last, calls, imported, mcArg, mcResult, ft, aic, far, cp, ep, st, rl, race, gm>>

NextDriver ==
    \/ RunImportStart \/ RunImportItem \/ RunImportInterrupt \/ RunImportEnd
    \/ MonitorStart \/ MonitorNextAccount \/ MonitorTweet \/ MonitorEnd

\* the specification the claims about the driver loops are checked under
SpecDriver == Init /\ [][NextDriver]_vars

\* C18: a failure on one item does not abort a driver's item loop: no
\* exception leaves run_import, its loop ends only after its last item and
\* every item it has dealt with is counted as success, skipped, failed or
\* twitter-failed; monitor_accounts leaves the tweets of an account only after
\* the last of them.
C18_PerItemIsolation ==
    /\ drv.driver = "run_import" =>
          /\ drv.status # "raised"
          /\ drv.status = "finished" => drv.i = Len(drv.items)
          /\ drv.stats.success + drv.stats.skipped + drv.stats.failed
                + Len(drv.failed_items) = drv.i
    /\ drv.driver = "monitor_accounts" =>
          (drv.caught => drv.t = Len(drv.tweets))

-----------------------------------------------------------------------------
(* fetch_author_replies on its own.                                        *)

\* one call of fetch_author_replies
FetchAuthorRepliesCall ==
    /\ \E cfg \in ReplyConfigs, run \in SubprocessRuns :
          far' = [called |-> TRUE, cfg |-> cfg, run |-> run,
                  did |-> fetch_author_replies(cfg, run)]
    /\ UNCHANGED <<prompts, last, calls, imported, mcArg, mcResult, ft, aic, drv, cp, ep, st, rl, race, gm>>

NextReplies == FetchAuthorRepliesCall

\* the specification the claims about fetch_author_replies are checked under
SpecReplies == Init /\ [][NextReplies]_vars

\* the cookies the call reads
CookiesOf(cfg) ==
    LET source == IF cfg.env.kind # "unset" THEN cfg.env ELSE cfg.file
    IN  IF source.kind \in {"unset", "invalid"} THEN EmptyCookies ELSE source

\* the run gives no list of replies: timeout, no start, non-zero exit, empty
\* output, output that is no JSON
RunFailed(run) ==
    \/ run.kind \in {"oserror", "timeout"}
    \/ run.kind = "exit" /\ (run.returncode # 0 \/ run.stdout.kind # "json")

\* C19: fetch_author_replies never raises; with no cookies or without
\* auth_token or ct0 it returns an empty list and starts no subprocess; on a
\* timeout, a non-zero exit, empty or unparsable output it returns an empty
\* list; a process_tweet_for_import call whose reply fetch gave the empty list
\* returns success=false, method='skipped' and inserts nothing.
C19_ReplyFetchNeverFails ==
    /\ far.called =>
          /\ ~far.did.ret.raised
          /\ (CookiesOf(far.cfg).kind = "false"
                 \/ ~Truthy(CookiesOf(far.cfg).auth_token)
                 \/ ~Truthy(CookiesOf(far.cfg).ct0)) =>
                (far.did.ret = Return(<< >>) /\ ~far.did.started)
          /\ RunFailed(far.run) => far.did.ret = Return(<< >>)
    /\ (last.called /\ "fetch_author_replies" \in last.stages
           /\ ~last.extract.raised /\ last.replies = << >>) =>
          /\ last.ret = Return(Skipped("No author replies found"))
          /\ last.saved = << >>

-----------------------------------------------------------------------------
(* classify_prompt on its own.                                             *)

\* what call_ai gives the classifier: the exception of the chain, or a text
ClassifyReplies == {Raise("all AI services failed")} \cup {Return(t) : t \in ResponseTexts}

\* one call of classify_prompt
ClassifyPromptCall ==
    /\ \E reply \in ClassifyReplies :
          cp' = [called |-> TRUE, reply |-> reply,
                 ret |-> classify_prompt(IF reply.raised THEN [kind |-> "raise"]
                                         ELSE ParsedResponse(reply.value))]
    /\ UNCHANGED <<prompts, last, calls, imported, mcArg, mcResult, ft, aic, drv, far, ep, st, rl, race, gm>>

NextClassify == ClassifyPromptCall

\* the specification the claims about classify_prompt are checked under
SpecClassify == Init /\ [][NextClassify]_vars

SixFields == {"title", "category", "sub_categories", "style", "confidence", "reason"}

\* C20: for every response text of the LLM classify_prompt returns a dict of
\* the six fields title, category, sub_categories, style, confidence, reason;
\* for a text that, the fences stripped, is no JSON and holds no parseable
\* brace-delimited object it returns the fixed default; it raises only when
\* the LLM chain failed.
C20_ParseFailureIsNoError ==
    cp.called =>
        /\ ~cp.reply.raised =>
              /\ ~cp.ret.raised
              /\ DOMAIN cp.ret.value = SixFields
        /\ (~cp.reply.raised /\ ~DirectlyParseable(cp.reply.value)
               /\ ~BraceSpanParseable(cp.reply.value)) =>
              cp.ret = Return(DefaultClassification)
        /\ cp.ret.raised => cp.reply.raised

-----------------------------------------------------------------------------
(* extract_prompt on its own.                                              *)

AllPhrases == AdPhrases \cup NoPromptPhrases \cup AltPhrases \cup ReplyPhrases

\* answers of the LLM: the sentinels, a phrase alone, in a sentence, with
\* capitals, two phrases in one answer, and prompts that hold no phrase
ExtractAnswers ==
    Sentinels
        \cup AllPhrases
        \cup {"This tweet " \o p \o ", sorry." : p \in AllPhrases}
        \cup {"The tweet is " \o a \o ", " \o b : a \in AllPhrases, b \in AllPhrases}
        \cup { "Engagement Bait", "PROMPT IN ALT", "See In The Comment", "Not Found",
               "a vintage Advertisement poster of a seaside town, flat colours",
               " ", LongPrompt, ShortPrompt, PaddedShortPrompt }

ExtractAiResults ==
    {Raise("all AI services failed"), Return(""), Return(None)}
        \cup {Return(a) : a \in ExtractAnswers}

\* one call of extract_prompt; the function keeps no state, a behaviour
\* holds one call
ExtractPromptCall ==
    /\ ~ep.called
    /\ \E text \in {None, "", PostText}, ai \in ExtractAiResults :
          ep' = [called |-> TRUE, text |-> text, ai |-> ai,
                 ret |-> extract_prompt(text, ai)]
    /\ UNCHANGED <<prompts, last, calls, imported, mcArg, mcResult, ft, aic, drv, far, cp, st, rl, race, gm>>

NextExtract == ExtractPromptCall

\* the specification the claims about extract_prompt are checked under
SpecExtract == Init /\ [][NextExtract]_vars

\* the answer is the sentinel of the outcome or holds one of its phrases
AnswerMatches(answer, outcome) ==
    CASE outcome = "advertisement" ->
            answer = "Advertisement" \/ ContainsAny(Lower(answer), AdPhrases)
      [] outcome = "alt" -> answer = "Prompt in ALT" \/ ContainsAny(Lower(answer), AltPhrases)
      [] outcome = "reply" ->
            answer = "Prompt in reply" \/ ContainsAny(Lower(answer), ReplyPhrases)
      [] outcome = "not_found" ->
            answer = "No prompt found" \/ ContainsAny(Lower(answer), NoPromptPhrases)

\* the outcomes in the order of their precedence
OutcomeOrder == <<"advertisement", "alt", "reply", "not_found">>

\* the result extract_prompt gives for an outcome
ResultOf(outcome, answer) ==
    CASE outcome = "advertisement" ->
            [prompt |-> "Advertisement", location |-> None, method |-> "ai"]
      [] outcome = "alt" -> [prompt |-> "Prompt in ALT", location |-> "alt", method |-> "ai"]
      [] outcome = "reply" ->
            [prompt |-> "Prompt in reply", location |-> "reply", method |-> "ai"]
      [] outcome = "not_found" -> [prompt |-> None, location |-> None, method |-> "ai"]
      [] outcome = "post" -> [prompt |-> answer, location |-> "post", method |-> "ai"]

-----------------------------------------------------------------------------
(* The checkpoint of the monitors: load_state, mark_tweet_processed and    *)
(* save_state of fetch_x_accounts (search_viral_prompts has the same       *)
(* three).  Tweet ids are numbers here: the ids in the file are 1..n, in   *)
(* the order they were marked, the ids marked in the run are larger.       *)

\* the list is cut when it holds more than this
ProcessedLimit == 10000
\* and this many of its latest entries are kept
ProcessedKept == 5000

\* the lengths of the list the state file holds at the start
StartLengths == {0, 1, ProcessedKept, ProcessedLimit - 2, ProcessedLimit - 1, ProcessedLimit}

NewIds == {ProcessedLimit + 1, ProcessedLimit + 2}

\* the cut that keeps the oldest entries: processed_tweets[:5000]
mark_tweet_processed_oldest(processed_tweets, tweet_id) ==
    LET appended == Append(processed_tweets, tweet_id)
    IN  IF Len(appended) > ProcessedLimit
            THEN SubSeq(appended, 1, ProcessedKept)
        ELSE appended

\* the list after mark_tweet_processed(state, tweet_id)
mark_tweet_processed(processed_tweets, tweet_id) ==
    LET appended == Append(processed_tweets, tweet_id)
    IN  IF Len(appended) > ProcessedLimit
            THEN SubSeq(appended, Len(appended) - ProcessedKept + 1, Len(appended))
        ELSE appended

\* load_state: the dict of the state file, or the default without a file
\* (has_key is false for a file whose dict has no processed_tweets)
LoadState ==
    /\ ~st.loaded
    /\ \E n \in StartLengths, has_key \in BOOLEAN :
          /\ has_key \/ n = 0
          /\ st' = [loaded |-> TRUE, has_key |-> has_key,
                    processed_tweets |-> [i \in 1..n |-> i],
                    disk |-> [i \in 1..n |-> i], marks |-> 0, marked |-> 0]
    /\ UNCHANGED <<prompts, last, calls, imported, mcArg, mcResult, ft, aic, drv, far, cp, ep, rl, race, gm>>

\* one call of mark_tweet_processed: the append, the cut, save_state
MarkTweetProcessed ==
    /\ st.loaded
    /\ st.marks < MaxMarks
    /\ \E tweet_id \in NewIds :
          LET list == mark_tweet_processed(st.processed_tweets, tweet_id)
          IN  st' = [st EXCEPT !.has_key = TRUE, !.processed_tweets = list,
                               !.disk = list, !.marks = @ + 1, !.marked = tweet_id]
    /\ UNCHANGED <<prompts, last, calls, imported, mcArg, mcResult, ft, aic, drv, far, cp, ep, rl, race, gm>>

NextState == LoadState \/ MarkTweetProcessed

\* the specification the claims about the monitor checkpoint are checked under
SpecState == Init /\ [][NextState]_vars

-----------------------------------------------------------------------------
(* The progress file of the gallery drivers.                               *)

C27_ResumeNeverReprocesses ==
    drv.driver = "run_import" =>
        /\ (drv.resume /\ ~drv.reset_progress) => drv.handed \cap drv.before = {}
        /\ drv.reset_progress =>
              /\ drv.processed_slugs \subseteq {GetSlugOr(k, drv.noslug) : k \in drv.handed}
              /\ drv.items = LET all == [k \in 1..Len(drv.data) |-> k]
                             IN  IF drv.limit > 0 THEN Take(all, drv.limit) ELSE all

\* the fallback title of the two tweets, by the author the caller names
FallbackTitle(args) ==
    LET username == IF args.author = None
                        THEN (IF args.tweet_url = Url1 THEN "alice" ELSE "bob")
                    ELSE args.author
        digits == IF args.tweet_url = Url1 THEN "111111" ELSE "345678"
    IN  "@" \o username \o " #" \o digits

Placeholders ==
    {"untitled prompt", "no prompt provided", "unknown prompt", "no title", "untitled",
     "n/a"}

\* C29: when classify_prompt raises after a prompt of trimmed length at least
\* 20 was extracted, the call does not raise: the record it prepares has the
\* category Illustration, no tags and the title "@username #" followed by the
\* last 6 digits of the tweet id; a dry run returns dry_run, a real run makes
\* the insert with these fields and returns imported unless the insert
\* raised.  A classifier title that is blank or a placeholder is
\* replaced by the same fallback title.
C29_ClassificationFailureDoesNotBlock ==
    (last.called /\ last.classified.ran) =>
        LET k == last.classified
            fallback == FallbackTitle(last.args)
        IN  /\ k.raised =>
                  /\ ~last.ret.raised
                  /\ k.record = [title |-> fallback, category |-> "Illustration",
                                 tags |-> << >>]
                  /\ last.args.dry_run => last.ret.value.method = "dry_run"
                  /\ ~last.args.dry_run =>
                        /\ "save_prompt" \in last.stages
                        /\ last.ret.value.method \in {"imported", "save_failed"}
                        /\ last.ret.value.method = "imported" => Len(last.saved) = 1
                        /\ Len(last.saved) = 1 =>
                              /\ last.saved[1].title = fallback
                              /\ last.saved[1].category = "Illustration"
                              /\ last.saved[1].tags = << >>
            /\ (Strip(k.title) = "" \/ Lower(k.title) \in Placeholders) =>
                  k.record.title = fallback

\* the classifier raised and the row went in under the fallback title
C29_ImportedUnderFallbackTitle ==
    /\ last.called /\ last.classified.raised
    /\ ~last.ret.raised /\ last.ret.value.method = "imported"
    /\ last.saved[1].title = "@bob #345678"

\* the methods an ImportOutcome can name
Methods == {"imported", "skipped", "twitter_failed", "save_failed", "dry_run"}

\* C25: every result process_tweet_for_import returns has a method among
\* imported, skipped, twitter_failed, save_failed and dry_run; success is
\* true exactly when the method is imported or dry_run; twitter_failed is
\* true exactly when the method is twitter_failed, and then twitter_error is
\* set; error is None exactly when success is true.
C25_ImportOutcomeConsistency ==
    (last.called /\ ~last.ret.raised) =>
        LET result == last.ret.value
        IN  /\ result.method \in Methods
            /\ result.success <=> result.method \in {"imported", "dry_run"}
            /\ result.twitter_failed <=> result.method = "twitter_failed"
            /\ result.twitter_failed => result.twitter_error # None
            /\ result.twitter_error # None => result.twitter_failed
            /\ result.error = None <=> result.success

\* every method has been returned: here a fetch that failed
C25_TwitterFailedReturned ==
    /\ last.called /\ ~last.ret.raised
    /\ last.ret.value.method = "twitter_failed"
    /\ last.ret.value.error = last.ret.value.twitter_error

-----------------------------------------------------------------------------
(* XMonitor.get_user_tweets: the retry loop on the twikit client and the   *)
(* Syndication fallback.  Times are in seconds.                            *)

DELAY_ON_RATE_LIMIT == 60
MAX_RETRIES_ON_RATE_LIMIT == 3

\* random.uniform(0, 10)
Jitters == {0, 5, 10}

\* e.rate_limit_reset - time.time() of a TooManyRequests error; 0 stands for
\* an error without rate_limit_reset, or with a falsy one
ResetTimes == {0, 30, 900}

\* the ways one primary attempt ends
AttemptOutcomes ==
    {[kind |-> k, reset |-> 0] : k \in {"tweets", "no_user", "conflict", "other"}}
        \cup {[kind |-> "rate_limit", reset |-> r] : r \in ResetTimes}

Max(a, b) == IF a >= b THEN a ELSE b

\* the wait of a rate-limit retry that starts from the count so far
wait_time_from_count(retry_count, reset, jitter) ==
    Max(DELAY_ON_RATE_LIMIT * retry_count, reset) + jitter

\* _handle_rate_limit: wait_time before the sleep
wait_time(retry_count, reset, jitter) ==
    LET base == DELAY_ON_RATE_LIMIT * (retry_count + 1)
    IN  (IF reset # 0 THEN Max(base, reset) ELSE base) + jitter

\* get_user_tweets up to its loop: init_client when not logged in, which
\* raises when no login works
GetUserTweetsStart ==
    /\ rl.status = "idle"
    /\ \E login \in {"logged_in", "init_ok", "init_raises"} :
          rl' = [rl EXCEPT !.status = IF login = "init_raises" THEN "raised" ELSE "loop"]
    /\ UNCHANGED <<prompts, last, calls, imported, mcArg, mcResult, ft, aic, drv, far, cp, ep, st, race, gm>>

\* one iteration of `while retry_count <= MAX_RETRIES_ON_RATE_LIMIT`: the
\* attempt and, when it raises, its except branch with the sleep
GetUserTweetsAttempt ==
    /\ rl.status = "loop"
    /\ rl.retry_count <= MAX_RETRIES_ON_RATE_LIMIT
    /\ \E e \in AttemptOutcomes, jitter \in Jitters :
          LET n == rl.attempts + 1
          IN  rl' =
                IF e.kind \in {"tweets", "no_user"}
                    THEN [rl EXCEPT !.attempts = n, !.status = "returned",
                                    !.returned = TRUE]
                ELSE IF e.kind = "conflict"
                    THEN [rl EXCEPT !.attempts = n, !.retry_count = @ + 1,
                            !.waits = Append(@, [kind |-> "conflict", attempt |-> n,
                                                 time |-> 2, jitter |-> 0, reset |-> 0])]
                ELSE IF e.kind = "rate_limit"
                        /\ rl.retry_count < MAX_RETRIES_ON_RATE_LIMIT
                    THEN [rl EXCEPT !.attempts = n, !.retry_count = @ + 1,
                            !.waits = Append(@, [kind |-> "rate_limit", attempt |-> n,
                                                 time |-> wait_time(rl.retry_count,
                                                                    e.reset, jitter),
                                                 jitter |-> jitter, reset |-> e.reset])]
                ELSE [rl EXCEPT !.attempts = n, !.status = "fallback"]
    /\ UNCHANGED <<prompts, last, calls, imported, mcArg, mcResult, ft, aic, drv, far, cp, ep, st, race, gm>>

\* the loop left by its condition
GetUserTweetsExhausted ==
    /\ rl.status = "loop"
    /\ rl.retry_count > MAX_RETRIES_ON_RATE_LIMIT
    /\ rl' = [rl EXCEPT !.status = "fallback"]
    /\ UNCHANGED <<prompts, last, calls, imported, mcArg, mcResult, ft, aic, drv, far, cp, ep, st, race, gm>>

\* the Syndication fallback: the timeline, the details of each of its tweets,
\* and the return; neither helper raises
GetUserTweetsFallback ==
    /\ rl.status = "fallback"
    /\ rl' = [rl EXCEPT !.status = "returned", !.fallbacks = @ + 1, !.returned = TRUE]
    /\ UNCHANGED <<prompts, last, calls, imported, mcArg, mcResult, ft, aic, drv, far, cp, ep, st, race, gm>>

NextBackoff ==
    \/ GetUserTweetsStart
    \/ GetUserTweetsAttempt
    \/ GetUserTweetsExhausted
    \/ GetUserTweetsFallback

\* the scheduler runs the coroutine on: every sleep ends
SpecBackoff == Init /\ [][NextBackoff]_vars /\ WF_vars(NextBackoff)

RateLimitWaits == {i \in 1..Len(rl.waits) : rl.waits[i].kind = "rate_limit"}

\* the call has left its loop after a failed attempt
FailedOut == rl.status = "returned" /\ rl.fallbacks > 0

-----------------------------------------------------------------------------
(* Two driver processes that call process_tweet_for_import for the same    *)
(* tweet_url, each on its own connection to one prompts table whose        *)
(* source_link column is unique.  A process holds its position in the call *)
(* (pc), what it returned (method, error) and whether it raised.           *)

Procs == {1, 2}

AtCheck == [pc |-> "check", method |-> "", error |-> "", raised |-> FALSE, via |-> ""]

\* the call of a process ends at the step via
Ended(method, error, raised, via) ==
    [pc |-> "done", method |-> method, error |-> error, raised |-> raised, via |-> via]

\* the ways steps 2 to 7 end for a tweet that has passed the duplicate check
BetweenOutcomes ==
    { [pass |-> TRUE, method |-> "", error |-> "", raised |-> FALSE],
      [pass |-> FALSE, method |-> "twitter_failed", error |-> "No images from Twitter",
       raised |-> FALSE],
      [pass |-> FALSE, method |-> "skipped", error |-> "No prompt found", raised |-> FALSE],
      [pass |-> FALSE, method |-> "", error |-> "", raised |-> TRUE] }

\* an insert whose exception leaves the call
save_result_uncaught(violation) ==
    IF violation THEN Ended("", "duplicate key value violates unique constraint", TRUE, "insert")
    ELSE Ended("imported", "", FALSE, "insert")

\* step 8: save_prompt inside its try; the unique index refuses a second row
\* of the source_link and the except turns that into save_failed
save_result(violation) ==
    IF violation
        THEN Ended("save_failed", "duplicate key value violates unique constraint", FALSE,
                   "insert")
    ELSE Ended("imported", "", FALSE, "insert")

\* two processes are given the same tweet_url
RaceStart ==
    /\ ~race.started
    /\ \E url \in {Url1, Url2} :
          race' = [started |-> TRUE, url |-> url,
                   rows_before |-> Cardinality(RowsWith(prompts, url)),
                   proc |-> [p \in Procs |-> AtCheck]]
    /\ UNCHANGED <<prompts, last, calls, imported, mcArg, mcResult, ft, aic, drv, far, cp, ep, st, rl, gm>>

\* step 1 of one process: db.prompt_exists(tweet_url) sees the rows committed
\* so far
RaceExists(p) ==
    /\ race.started
    /\ race.proc[p].pc = "check"
    /\ race' = [race EXCEPT !.proc[p] =
                    IF RowsWith(prompts, race.url) # {}
                        THEN Ended("skipped", "Already exists", FALSE, "check")
                    ELSE [@ EXCEPT !.pc = "between"]]
    /\ UNCHANGED <<prompts, last, calls, imported, mcArg, mcResult, ft, aic, drv, far, cp, ep, st, rl, gm>>

\* steps 2 to 7 of one process: fetch, extraction, classification
RaceBetween(p) ==
    /\ race.started
    /\ race.proc[p].pc = "between"
    /\ \E o \in BetweenOutcomes :
          race' = [race EXCEPT !.proc[p] =
                      IF o.pass THEN [@ EXCEPT !.pc = "insert"]
                      ELSE Ended(o.method, o.error, o.raised, "between")]
    /\ UNCHANGED <<prompts, last, calls, imported, mcArg, mcResult, ft, aic, drv, far, cp, ep, st, rl, gm>>

\* step 8 of one process: the INSERT and its commit in execute_write, one
\* step of the table: an INSERT that meets an uncommitted row of the same
\* source_link waits for the commit of the other and is refused then
RaceSave(p) ==
    /\ race.started
    /\ race.proc[p].pc = "insert"
    /\ LET violation == RowsWith(prompts, race.url) # {}
       IN  /\ race' = [race EXCEPT !.proc[p] = save_result(violation)]
           /\ prompts' = IF violation THEN prompts ELSE Append(prompts, race.url)
    /\ UNCHANGED <<last, calls, imported, mcArg, mcResult, ft, aic, drv, far, cp, ep, st, rl, gm>>

NextRace ==
    \/ RaceStart
    \/ \E p \in Procs : RaceExists(p)
    \/ \E p \in Procs : RaceBetween(p)
    \/ \E p \in Procs : RaceSave(p)

SpecRace == Init /\ [][NextRace]_vars

\* the call of p ended at its duplicate check or at its insert
Raced(p) == race.proc[p].pc = "done" /\ race.proc[p].via \in {"check", "insert"}

ReturnedImported == {p \in Procs : race.proc[p].pc = "done" /\ race.proc[p].method = "imported"}

\* C26: of two processes importing one tweet_url at most one returns
\* imported and the table never holds two rows of that source_link; a call
\* that ends at its duplicate check or at its insert does not raise and
\* returns imported, skipped with Already exists, or save_failed; and when
\* both calls have ended there, exactly one row of the source_link is
\* stored, inserted by the one call that returned imported unless the row
\* was there before.
C26_ConcurrentImportsOfOneUrl ==
    race.started =>
        /\ Cardinality(ReturnedImported) <= 1
        /\ Cardinality(RowsWith(prompts, race.url)) <= 1
        /\ \A p \in Procs : Raced(p) =>
              /\ ~race.proc[p].raised
              /\ \/ race.proc[p].method = "imported"
                 \/ race.proc[p].method = "skipped" /\ race.proc[p].error = "Already exists"
                 \/ race.proc[p].method = "save_failed"
        /\ (\A p \in Procs : Raced(p)) =>
              /\ Cardinality(RowsWith(prompts, race.url)) = 1
              /\ Cardinality(ReturnedImported) = 1 - race.rows_before

\* both processes passed the duplicate check before either insert: one is
\* imported, the other refused by the unique index
C26_BothPassedTheCheck ==
    /\ race.started
    /\ \E p, q \in Procs :
          /\ race.proc[p].pc = "done" /\ race.proc[p].method = "imported"
          /\ race.proc[q].pc = "done" /\ race.proc[q].method = "save_failed"
    /\ Cardinality(RowsWith(prompts, race.url)) = 1

-----------------------------------------------------------------------------
(* main.run_full_pipeline: the emails of the inbox, their Twitter links,   *)
(* the email_records table, and the connection the run works on.           *)

MessageIds == <<"<m1@mail>", "<m2@mail>">>

LinkLists == {<< >>, <<Url1>>, <<Url1, Url2>>}

\* the inbox: fetch_emails gives every mail of the sender, in every run
Inboxes ==
    UNION {[1..n -> LinkLists] : n \in 1..MaxEmails}

\* what process_twitter_url does with one link.  db_error: save_prompt raised
\* in the database (a duplicate key, a value the column refuses); the except
\* returns "failed" and the transaction of the connection stays aborted
LinkOutcomes == {"saved", "exists", "advertisement", "no_prompt", "failed", "db_error"}

\* the links of one email in order, on a connection that may be in an aborted
\* transaction already: there prompt_exists raises and the loop counts the
\* link as failed
RECURSIVE ProcessLinks(_, _)
ProcessLinks(outcomes, aborted) ==
    IF outcomes = << >> THEN [results |-> << >>, aborted |-> aborted]
    ELSE LET result == IF aborted \/ Head(outcomes) = "db_error" THEN "failed"
                       ELSE Head(outcomes)
             rest == ProcessLinks(Tail(outcomes), aborted \/ Head(outcomes) = "db_error")
         IN  [results |-> <<result>> \o rest.results, aborted |-> rest.aborted]

\* run_full_pipeline up to its loop, on a new connection
PipelineStart ==
    /\ gm.status # "running"
    /\ gm.runs < MaxPipelineRuns
    /\ \E inbox \in IF gm.status = "idle" THEN Inboxes ELSE {gm.inbox},
          recorded \in IF gm.status = "idle" THEN {{}, {MessageIds[1]}}
                       ELSE {gm.email_records} :
          gm' = [status |-> "running", runs |-> gm.runs + 1, inbox |-> inbox, e |-> 0,
                 email_records |-> recorded, aborted |-> FALSE,
                 links_runs |-> IF gm.status = "idle"
                                    THEN [k \in 1..Len(inbox) |-> {}]
                                ELSE gm.links_runs,
                 results |-> << >>, skipped |-> FALSE]
    /\ UNCHANGED <<prompts, last, calls, imported, mcArg, mcResult, ft, aic, drv, far, cp, ep, st, rl, race>>

\* one iteration of the email loop: the check of email_records, the links,
\* save_email.  An exception of email_processed or save_email leaves the
\* loop and the run
PipelineEmail ==
    /\ gm.status = "running"
    /\ gm.e < Len(gm.inbox)
    /\ LET k == gm.e + 1
           message_id == MessageIds[k]
           twitter_links == gm.inbox[k]
       IN  IF message_id \in gm.email_records \/ twitter_links = << >>
               THEN gm' = [gm EXCEPT !.e = k, !.results = << >>, !.skipped = TRUE]
           ELSE \E outcomes \in [1..Len(twitter_links) -> LinkOutcomes] :
                   LET done == ProcessLinks(outcomes, FALSE)
                   IN  gm' = [gm EXCEPT
                                !.e = k,
                                !.skipped = FALSE,
                                !.results = done.results,
                                !.links_runs[k] = @ \cup {gm.runs},
                                !.aborted = done.aborted,
                                !.status = IF done.aborted THEN "raised" ELSE @,
                                !.email_records = IF done.aborted THEN @
                                                  ELSE @ \cup {message_id}]
    /\ UNCHANGED <<prompts, last, calls, imported, mcArg, mcResult, ft, aic, drv, far, cp, ep, st, rl, race>>

\* run_full_pipeline after its loop: the summary
PipelineEnd ==
    /\ gm.status = "running"
    /\ gm.e = Len(gm.inbox)
    /\ gm' = [gm EXCEPT !.status = "finished"]
    /\ UNCHANGED <<prompts, last, calls, imported, mcArg, mcResult, ft, aic, drv, far, cp, ep, st, rl, race>>

NextPipeline ==
    \/ PipelineStart
    \/ PipelineEmail
    \/ PipelineEnd

SpecPipeline == Init /\ [][NextPipeline]_vars

\* C30: an email whose message_id is in email_records is skipped and none of
\* its links is processed; an email with at least one Twitter link is in
\* email_records once its links have been processed, whatever their
\* outcomes; and over all runs the links of an email are processed in at
\* most one run.
C30_EmailProcessedAtMostOnce ==
    [][(gm.status = "running" /\ gm'.status # "finished" /\ gm'.e = gm.e + 1) =>
          LET k == gm'.e
          IN  /\ MessageIds[k] \in gm.email_records =>
                    /\ gm'.skipped
                    /\ gm'.links_runs = gm.links_runs
              /\ gm'.links_runs[k] # gm.links_runs[k] =>
                    MessageIds[k] \in gm'.email_records
              /\ Cardinality(gm'.links_runs[k]) <= 1]_vars

\* the checkpoint a driver has on disk: the progress file of run_import, the
\* state file of monitor_accounts, which mark_tweet_processed writes on
\* every call
Checkpoint ==
    IF drv.driver = "run_import" THEN drv.file
    ELSE IF drv.driver = "monitor_accounts" THEN drv.processed_tweets
    ELSE {}

\* C28: no step of a run with dry_run=true, its start included, changes the
\* prompts table or the on-disk checkpoint of the driver.
C28_DryRunLeavesStateUnchanged ==
    [][(drv'.driver # "none" /\ drv'.dry_run) =>
            /\ prompts' = prompts
            /\ Checkpoint' = Checkpoint]_vars

=============================================================================
